---- MODULE Spec2Model ----
(***************************************************************************)
(* Model of the Sanity -> R2 backup pipeline (skaidigital/infra).          *)
(*                                                                         *)
(* The state machine follows runBackup (backup/index.ts): one action per   *)
(* awaited stage, the retry wrapper of utils/retry.ts around the network   *)
(* stages, uploadToR2 and deleteOldBackups of backup/r2-upload.ts acting   *)
(* on a model of the bucket, and sendNotification of                       *)
(* backup/notifications.ts.  Runs are serialized: a run starts only when   *)
(* the previous one has delivered its outcome.                             *)
(*                                                                         *)
(* Spec is the pipeline; SpecLargeBucket is the pipeline on a prefix that  *)
(* holds more objects than one listing page; SpecRetention, SpecUpload,    *)
(* SpecExport and SpecRetry are deleteOldBackups, uploadToR2,              *)
(* exportSanityDataset (backup/sanity-export.ts) and                       *)
(* withExponentialBackoff called on their own, on any input;               *)
(* SpecRetryVariants has retryWithJitter next to withExponentialBackoff,   *)
(* and SpecConfig is the reading of process.env and the forming of the     *)
(* object keys at the head of runBackup.  SpecEmptyArchive is the pipeline *)
(* with a tar step that may write no byte, SpecChecksum the writing and    *)
(* parsing of the checksum sidecar, SpecConcurrent two runs interleaved on *)
(* one prefix, SpecBatch deleteOldBackups on a full listing page,          *)
(* SpecAssets (SpecAssetsFair with fairness) the batch loop of             *)
(* exportAssets, and SpecPushes the push-notification script               *)
(* (.github/scripts/process-pushes.js).                                    *)
(***************************************************************************)
EXTENDS Integers, Sequences, FiniteSets, TLC

\* ------------------------------------------------------------------ bounds
\* Number of serialized runs explored.
MaxRuns == 2
\* Number of backups (archive + sidecar) already in the bucket at the start.
MaxInit == 0
\* Largest retainCount explored (RETAIN_COUNT parsed to a count 0..MaxRetain).
MaxRetain == 2
\* Largest local file size explored, in bytes.
MaxSize == 1
\* Largest number of archives in a listing handed to deleteOldBackups on its own.
MaxListed == 3
\* Largest number of distinct asset URLs found in the exported records.
MaxAssets == 3
\* Largest assetConcurrency explored.
MaxConcurrency == 2
\* Largest maxRetries handed to withExponentialBackoff on its own.
MaxBackoffRetries == 5

\* retryWithJitter is explored with maxRetries up to this.
MaxJitterRetries == 3
\* Draws of Math.random() explored are multiples of 1 / JitterDen.
JitterDen == 20
\* Longest digest, longest file name and longest other line of a checksum file.
MaxDigestLen == 2
MaxNameLen == 3
MaxLineLen == 2

\* ------------------------------------------------------- program constants
\* withRetry(fn, 3, ...) at every retried stage of runBackup.
StageMaxRetries == 3
\* MaxKeys: 1000 of the ListObjectsV2Command in deleteOldBackups.
MaxKeys == 1000
\* Default of maxDelayMs in withExponentialBackoff.
DefaultMaxDelayMs == 30000
\* The large-object threshold of the upload tests: 100 MiB.
MultipartThreshold == 104857600

\* Delays with jitter are multiples of 1 / DelayDen of a millisecond.
DelayDen == 10 * JitterDen

VARIABLES
  store,        \* the bucket under the prefix: set of [key, size, mtime]
  runs,         \* number of runs started; the current run's timestamp token
  retainCount,  \* retainCount.retainCount
  pc,           \* position of runBackup
  attempt,      \* loop variable `attempt` of withExponentialBackoff
  caught,       \* the error bound by runBackup's catch clause
  raised,       \* history: [stage, error] of the stage failure that aborted the run
  pending,      \* completion of the try/catch statement, held while finally runs
  outcome,      \* what runBackup delivered to its caller
  trace,        \* history: stages in the order they were first started
  completed,    \* history: stages that completed successfully, in order
  notes,        \* history: the sendNotification calls of the run
  tempDir,      \* whether the run's temporary directory exists
  rmFailed,     \* history: fs.rm of the finally block failed
  localSize,    \* sizes of the local archive and sidecar files
  storeAtStart, \* history: the bucket when the run started
  verified,     \* history: uploads of the run that passed size verification
  pruneCalls,   \* history: number of deleteOldBackups calls of the run
  lastDelete,   \* history: the last DeleteObjects request, the bucket it met and
                \* the number of the deleteOldBackups call that issued it
  env,          \* the R2_* variables that are set in process.env
  bulk,         \* number of further objects under the prefix that are no archives
                \* and whose keys sort before every key of `store`
  lastError,    \* variable `lastError` of withExponentialBackoff
  netCalls,     \* history: the remote services the run has sent a request to
  call,         \* arguments and remote answers of a call studied on its own
  opts,         \* the RetryOptions of a withExponentialBackoff call studied on its own
  delayMs,      \* variable `delayMs` of withExponentialBackoff
  retryLog      \* history: the arguments of the onRetry calls

\* Variables that only the specifications of single calls change.
unitVars == <<call, opts, delayMs, retryLog>>

vars == <<store, runs, retainCount, pc, attempt, caught, raised,
          pending, outcome, trace, completed, notes, tempDir, rmFailed,
          localSize, storeAtStart, verified, pruneCalls, lastDelete,
          env, bulk, lastError, netCalls, call, opts, delayMs, retryLog>>

\* ----------------------------------------------------------------- helpers
None == [kind |-> "none"]

Last(s) == s[Len(s)]

SeqToSet(s) == {s[i] : i \in 1..Len(s)}

\* Array.prototype.slice(start) for an integer start (negative counts from the end).
Slice(s, start) ==
  LET from == IF start < 0 THEN (IF Len(s) + start < 0 THEN 0 ELSE Len(s) + start)
              ELSE (IF start > Len(s) THEN Len(s) ELSE start)
  IN  [i \in 1..(Len(s) - from) |-> s[from + i]]

\* `new Error(prefix + ": " + inner.message)`: messages are token sequences.
WrapError(prefix, inner) == [name |-> "Error", message |-> <<prefix>> \o inner.message]

MkError(name, msg) == [name |-> name, message |-> <<msg>>]

\* The value of a call that returned normally.
Ok == [name |-> "ok", message |-> <<>>]

\* ------------------------------------------------------------ object keys
\* A key is <<timestamp token, extension, ...>>; `${key}.sha256` appends a token.
ObjectKey(token) == <<token, "tar.gz">>

SidecarKey(key) == key \o <<"sha256">>

\* String.prototype.endsWith('.tar.gz')
EndsWithTarGz(key) == Last(key) = "tar.gz"

\* Lexicographic order of keys, the order ListObjectsV2 returns them in.
KeyLess(a, b) == a[1] < b[1] \/ (a[1] = b[1] /\ Len(a) < Len(b))

Sizes == 1..MaxSize

\* Length of the sidecar text `${checksum}  ${name}\n`, in tokens: the digest,
\* the separator, the tokens of the name, the line end.
SidecarBytes(name) == Len(name) + 3

\* ------------------------------------------------------------- the bucket
Archives(S) == {o \in S : EndsWithTarGz(o.key)}

Keys(S) == {o.key : o \in S}

\* LastModified of a write: later than that of every object already stored
\* (only the order of the timestamps matters to the program).
Now(S) == IF S = {} THEN 1
          ELSE 1 + (CHOOSE m \in {o.mtime : o \in S} : \A o \in S : o.mtime <= m)

\* PutObjectCommand: creates or overwrites the object under `key`.
PutObject(S, key, size) ==
  LET rest == {o \in S : o.key # key}
  IN  rest \cup {[key |-> key, size |-> size, mtime |-> Now(rest)]}

\* HeadObjectCommand: ContentLength of the stored object.
HeadContentLength(S, key) == (CHOOSE o \in S : o.key = key).size

\* ListObjectsV2Command: Contents, in ascending key order.
RECURSIVE ListObjects(_)
ListObjects(S) ==
  IF S = {} THEN <<>>
  ELSE LET first == CHOOSE o \in S : \A p \in S : p = o \/ KeyLess(o.key, p.key)
       IN  <<first>> \o ListObjects(S \ {first})

\* The objects of S that a ListObjectsV2Command with MaxKeys returns when `b`
\* other objects under the prefix have smaller keys: the first MaxKeys keys
\* are returned, the rest is cut off (the code never asks for the next page).
Listed(S, b) ==
  IF Cardinality(S) + b <= MaxKeys THEN S
  ELSE LET all  == ListObjects(S)
           room == IF MaxKeys - b < 0 THEN 0 ELSE MaxKeys - b
       IN  {all[i] : i \in 1..room}

\* Faulty variant: the keys reported in Errors are removed as well.
DeleteObjects_ReportedToo(S, keys, failed) == {o \in S : o.key \notin keys}

\* DeleteObjectsCommand whose response reports Errors for the keys in `failed`.
DeleteObjects(S, keys, failed) == {o \in S : o.key \notin (keys \ failed)}

\* ------------------------------------------------------------ configuration
R2Credentials == {"R2_ACCOUNT_ID", "R2_ACCESS_KEY_ID", "R2_SECRET_ACCESS_KEY"}

R2Config == R2Credentials \cup {"R2_BUCKET"}

\* Faulty variant: only the bucket name is checked.
ConfigCheck_BucketOnly(E) ==
  IF "R2_BUCKET" \notin E THEN MkError("Error", "R2_BUCKET not configured") ELSE Ok

\* The checks at the head of uploadToR2 (and of getS3Client): the credentials
\* first, then the bucket; Ok when nothing is missing.
ConfigCheck(E) ==
  IF ~(R2Credentials \subseteq E) THEN MkError("Error", "R2 credentials not configured")
  ELSE IF "R2_BUCKET" \notin E THEN MkError("Error", "R2_BUCKET not configured")
  ELSE Ok

\* --------------------------------------------------------------- uploadToR2
\* What the storage can answer to one uploadToR2 call: the put is rejected, the
\* put stores `size` bytes and the read-back is rejected, or the put stores
\* `size` bytes and the read-back answers.
UploadResponses(localBytes) ==
  {[put |-> "error", size |-> 0, head |-> "none"]}
  \cup {[put |-> "ok", size |-> sz, head |-> h] :
          sz \in {localBytes, localBytes - 1} \cap Nat, h \in {"ok", "error"}}

\* How uploadToR2 sends a file of localBytes bytes: one PutObjectCommand with
\* the file stream as its body, whatever the size.
TransferStrategy(localBytes) == "single"

\* Faulty variant: only a stored object larger than the file counts as a mismatch.
VerificationFails_Larger(contentLength, localBytes) == contentLength > localBytes

\* The verification of r2-upload.ts: ContentLength !== fileStats.size throws.
VerificationFails(contentLength, localBytes) == contentLength # localBytes

\* uploadToR2(filePath, objectKey) with the variables E set: the bucket
\* afterwards, Ok or the error thrown, and the number of requests sent to the
\* storage client.  The configuration errors are thrown before the try block
\* and are not wrapped.
UploadToR2(E, S, key, localBytes, resp) ==
  IF ConfigCheck(E) # Ok
  THEN [store |-> S, result |-> ConfigCheck(E), requests |-> 0]
  ELSE IF resp.put = "error"
  THEN [store |-> S, requests |-> 1,
        result |-> WrapError("R2 upload failed", MkError("Error", "put rejected"))]
  ELSE LET S1 == PutObject(S, key, resp.size)
       IN  IF resp.head = "error"
           THEN [store |-> S1, requests |-> 2,
                 result |-> WrapError("R2 upload failed", MkError("Error", "head rejected"))]
           ELSE IF VerificationFails(HeadContentLength(S1, key), localBytes)
           THEN [store |-> S1, requests |-> 2,
                 result |-> WrapError("R2 upload failed",
                              MkError("Error", "Upload verification failed: size mismatch"))]
           ELSE [store |-> S1, requests |-> 2, result |-> Ok]

\* --------------------------------------------------------- deleteOldBackups
\* Array.prototype.sort with (a, b) => dateB - dateA: a stable insertion of each
\* element behind the elements that are at least as new.
RECURSIVE InsertNewestFirst(_, _)
InsertNewestFirst(sorted, o) ==
  IF sorted = <<>> THEN <<o>>
  ELSE IF Head(sorted).mtime >= o.mtime
       THEN <<Head(sorted)>> \o InsertNewestFirst(Tail(sorted), o)
       ELSE <<o>> \o sorted

RECURSIVE SortNewestFirst(_)
SortNewestFirst(s) ==
  IF s = <<>> THEN <<>>
  ELSE InsertNewestFirst(SortNewestFirst(SubSeq(s, 1, Len(s) - 1)), Last(s))

\* Faulty variant: the archives are left in listing order (oldest key first).
Backups_Unsorted(S) == SelectSeq(ListObjects(S), LAMBDA o : EndsWithTarGz(o.key))

\* listResponse.Contents.filter(obj => obj.Key && obj.Key.endsWith('.tar.gz')).sort(...)
Backups(S) == SortNewestFirst(SelectSeq(ListObjects(S), LAMBDA o : EndsWithTarGz(o.key)))

\* Faulty variant: the newest backups are deleted and the oldest kept.
BackupsToDelete_KeepOldest(backups, retain) ==
  SubSeq(backups, 1, IF Len(backups) > retain THEN Len(backups) - retain ELSE 0)

\* backups.slice(retainCount)
BackupsToDelete(backups, retain) == Slice(backups, retain)

\* Faulty variant: the sidecar keys are left out of the batch.
KeysToDelete_NoSidecar(toDelete) == {toDelete[i].key : i \in 1..Len(toDelete)}

\* keysToDelete: each backup's key and `${key}.sha256`
KeysToDelete(toDelete) ==
  UNION {{toDelete[i].key, SidecarKey(toDelete[i].key)} : i \in 1..Len(toDelete)}

\* What the storage can answer to the batch delete of `toDelete`: the request is
\* rejected, or it is carried out with Errors for no key, for every key, or for
\* one key (archive or sidecar) of the first backup of the batch.
DeleteResponses(toDelete) ==
  LET keys == KeysToDelete(toDelete)
      one  == IF toDelete = <<>> THEN {}
              ELSE {{toDelete[1].key}, {SidecarKey(toDelete[1].key)}}
  IN  {[send |-> "error", failed |-> {}]}
      \cup {[send |-> "ok", failed |-> f] : f \in {{}, keys} \cup one}

\* Faulty variant: a listing of exactly retainCount archives is not within the limit.
WithinRetention_Strict(backups, retain) == Len(backups) < retain

\* backups.length <= retainCount: nothing to delete.
WithinRetention(backups, retain) == Len(backups) <= retain

\* Faulty variant: a single failed key is not taken for a failure.
DeleteErrorsReported_Many(failed) == Cardinality(failed) > 1

\* deleteResponse.Errors && deleteResponse.Errors.length > 0
DeleteErrorsReported(failed) == failed # {}

\* new Error(`Failed to delete some backups: ${deleteResponse.Errors.length} errors`)
PartialDeleteError(failed) ==
  [name |-> "Error",
   message |-> <<"Failed to delete some backups", ToString(Cardinality(failed)), "errors">>]

\* deleteOldBackups(prefix, retainCount) with the variables E set, on the bucket
\* S with b further objects in front of it: the bucket afterwards, Ok or the
\* error thrown, the delete request issued (None when none was) and the number
\* of requests sent to the storage client.
DeleteOldBackups(E, S, b, retain, listOK, resp) ==
  IF ConfigCheck(E) # Ok
  THEN [store |-> S, request |-> None, requests |-> 0, result |-> ConfigCheck(E)]
  ELSE IF ~listOK
  THEN [store |-> S, request |-> None, requests |-> 1,
        result |-> WrapError("Retention management failed", MkError("Error", "list rejected"))]
  ELSE IF S = {} /\ b = 0 THEN [store |-> S, request |-> None, requests |-> 1, result |-> Ok]
  ELSE LET backups == Backups(Listed(S, b))
       IN  IF WithinRetention(backups, retain)
           THEN [store |-> S, request |-> None, requests |-> 1, result |-> Ok]
           ELSE LET keys == KeysToDelete(BackupsToDelete(backups, retain))
                    req  == [kind |-> "delete", keys |-> keys, before |-> S,
                             failed |-> resp.failed]
                IN  IF resp.send = "error"
                    THEN [store |-> S, request |-> req, requests |-> 2,
                          result |-> WrapError("Retention management failed",
                                       MkError("Error", "delete rejected"))]
                    ELSE IF DeleteErrorsReported(resp.failed)
                    THEN [store |-> DeleteObjects(S, keys, resp.failed), request |-> req,
                          requests |-> 2,
                          result |-> WrapError("Retention management failed",
                                       PartialDeleteError(resp.failed))]
                    ELSE [store |-> DeleteObjects(S, keys, resp.failed), request |-> req,
                          requests |-> 2, result |-> Ok]

\* ---------------------------------------------------------------- withRetry
\* withExponentialBackoff's catch clause with the default shouldRetry: the error
\* of the last allowed attempt is thrown, any earlier one leads to a retry.
RetryDecision(att, maxRetries) == IF att = maxRetries THEN "throw" ELSE "retry"

\* Faulty variant: the error is delivered inside a new one.
RetryThrows_Wrapped(err) == WrapError("Retry failed", err)

\* `throw lastError`: the error the wrapper delivers when it gives up.
RetryThrows(err) == err

\* Math.round of the quotient num / den (den > 0): the nearest integer, a half
\* rounded towards plus infinity.
MathRound(num, den) == (2 * num + den) \div (2 * den)

\* Faulty variant: the delay handed on is not capped.
NextDelay_Unclamped(delay, maxDelay) == delay

\* Math.min(delayMs, maxDelayMs)
NextDelay(delay, maxDelay) == IF delay < maxDelay THEN delay ELSE maxDelay

\* Math.round(delayMs * backoffMultiplier), the multiplier being the fraction
\* mult.num / mult.den.
Backoff(delay, mult) == MathRound(delay * mult.num, mult.den)

\* Faulty variant: the loop is left one attempt early.
ExitsLoop_Early(att, maxRetries) == att + 1 >= maxRetries

\* `if (attempt === maxRetries)` in the catch clause: the attempt that failed was
\* the last one the loop makes.
ExitsLoop(att, maxRetries) == att = maxRetries

\* Values the wrapped operation resolves with, errors it rejects with, and the
\* error of a throwing hook.
FnValues == {[value |-> "first"], [value |-> "second"]}

FnErrors == {MkError("Error", "operation failed"), MkError("TypeError", "operation broke")}

HookError == MkError("Error", "onRetry failed")

\* The options explored: maxRetries, initialDelayMs, maxDelayMs (a small cap or
\* the default), backoffMultiplier (1, 2 or 1.5), shouldRetry accepting or
\* rejecting every error, and onRetry absent, returning or throwing.
RetryOptionSets ==
  [maxRetries : 0..MaxBackoffRetries,
   initialDelayMs : {0, 10, 100},
   maxDelayMs : {300, DefaultMaxDelayMs},
   backoffMultiplier : {[num |-> 1, den |-> 1], [num |-> 2, den |-> 1],
                        [num |-> 3, den |-> 2]},
   shouldRetry : BOOLEAN,
   onRetry : {"none", "returns", "throws"}]

\* ---------------------------------------------------------- retryWithJitter
\* Faulty variant: the wrapping error counts the retries, not the attempts.
RetryError_CountsRetries(maxRetries, err) ==
  [name |-> "RetryError",
   message |-> <<"Failed after", ToString(maxRetries), "attempts">>,
   attempts |-> maxRetries, lastError |-> err]

\* new RetryError(`Failed after ${maxRetries + 1} attempts`, maxRetries + 1,
\* lastError)
RetryError(maxRetries, err) ==
  [name |-> "RetryError",
   message |-> <<"Failed after", ToString(maxRetries + 1), "attempts">>,
   attempts |-> maxRetries + 1, lastError |-> err]

\* Math.random() lies in [0, 1); the draws explored are r / JitterDen for r in
\* JitterDraws: none, a half, and nearly all of the range.
JitterDraws == {0, JitterDen \div 2, JitterDen - 1}

\* A delay with jitter is a fraction of a millisecond: it is kept as the
\* numerator over DelayDen = 10 * JitterDen.
Exact(ms) == ms * DelayDen

\* Faulty variant: the jitter is up to the whole delay.
Jitter_Whole(delay, r) == 10 * r * delay

\* Math.random() * 0.3 * delayMs, over DelayDen.
Jitter(delay, r) == 3 * r * delay

\* Faulty variant: the sum with the jitter is not capped.
JitterNextDelay_Unclamped(delay, maxDelay, r) == Exact(delay) + Jitter(delay, r)

\* Math.min(delayMs + jitter, maxDelayMs), over DelayDen.
JitterNextDelay(delay, maxDelay, r) ==
  LET sum == Exact(delay) + Jitter(delay, r)
  IN  IF sum < Exact(maxDelay) THEN sum ELSE Exact(maxDelay)

\* The options retryWithJitter is explored with.
JitterOptionSets ==
  [maxRetries : 0..MaxJitterRetries,
   initialDelayMs : {1, 10, 100},
   maxDelayMs : {300, DefaultMaxDelayMs},
   backoffMultiplier : {[num |-> 1, den |-> 1], [num |-> 2, den |-> 1],
                        [num |-> 3, den |-> 2]},
   shouldRetry : BOOLEAN,
   onRetry : {"none", "returns", "throws"}]

\* --------------------------------------------------------- sendNotification
WebhookResponses == {"ok", "non2xx", "reject"}

\* Faulty variant: sendNotification lets a delivery failure reject its promise.
SendNotification_Throws(url, resp) ==
  IF ~url THEN [fetched |-> FALSE, response |-> "none", settles |-> "resolved"]
  ELSE [fetched |-> TRUE, response |-> resp,
        settles |-> IF resp = "ok" THEN "resolved" ELSE "rejected"]

\* sendNotification(options), with SLACK_WEBHOOK_URL set (url) or not: whether
\* fetch was called, and how the returned promise settles.  Without a webhook
\* URL it returns before the try block; a
\* non-ok response throws inside the try block and the catch clause only logs.
SendNotification(url, resp) ==
  IF ~url THEN [fetched |-> FALSE, response |-> "none", settles |-> "resolved"]
  ELSE [fetched |-> TRUE, response |-> resp, settles |-> "resolved"]

\* -------------------------------------------------------------- runBackup
\* Faulty variant: the checksum is computed before the archive exists.
NextStage_ChecksumFirst(stage) ==
  CASE stage = "export"         -> "checksum"
    [] stage = "checksum"       -> "archive"
    [] stage = "archive"        -> "uploadArchive"
    [] stage = "uploadArchive"  -> "uploadChecksum"
    [] stage = "uploadChecksum" -> "prune"
    [] stage = "prune"          -> "notify"

\* Faulty variant: old backups are pruned before the new one is uploaded.
NextStage_PruneBeforeUploads(stage) ==
  CASE stage = "export"         -> "archive"
    [] stage = "archive"        -> "checksum"
    [] stage = "checksum"       -> "prune"
    [] stage = "prune"          -> "uploadArchive"
    [] stage = "uploadArchive"  -> "uploadChecksum"
    [] stage = "uploadChecksum" -> "notify"

\* Faulty variant: old backups are pruned before the sidecar is uploaded.
NextStage_PruneBeforeSidecar(stage) ==
  CASE stage = "export"         -> "archive"
    [] stage = "archive"        -> "checksum"
    [] stage = "checksum"       -> "uploadArchive"
    [] stage = "uploadArchive"  -> "prune"
    [] stage = "prune"          -> "uploadChecksum"
    [] stage = "uploadChecksum" -> "notify"

\* The statement that follows each stage inside runBackup's try block.
NextStage(stage) ==
  CASE stage = "export"         -> "archive"
    [] stage = "archive"        -> "checksum"
    [] stage = "checksum"       -> "uploadArchive"
    [] stage = "uploadArchive"  -> "uploadChecksum"
    [] stage = "uploadChecksum" -> "prune"
    [] stage = "prune"          -> "notify"

\* Faulty variant: a statement after the success notification throws.
AfterSuccessNotification_Throws == "catch"

\* Where runBackup goes once the success notification has resolved: the three
\* output lines and the log line do not throw, `return result` enters finally.
AfterSuccessNotification == "finally"

\* Faulty variant: the catch clause reports the run as a success.
FailureNotification_Success(error) == [status |-> "success", error |-> error.message]

\* The options of the failure notification sent by the catch clause.
FailureNotification(error) == [status |-> "failure", error |-> error.message]

\* Faulty variant: the catch clause throws a new error wrapping the caught one.
Rethrow_Wrapped(error) == WrapError("Backup failed", error)

\* `throw error` at the end of the catch clause.
Rethrow(error) == error

\* Faulty variant: a failure of fs.rm escapes the finally block.
FinallyCompletion_Escalates(pend, rmOK) ==
  IF rmOK THEN pend ELSE [kind |-> "throw", error |-> MkError("Error", "rm failed")]

\* Completion of runBackup once the finally block has run: the block catches the
\* failure of fs.rm itself, so the pending return or throw goes through.
FinallyCompletion(pend, rmOK) == pend

\* What the export API can answer to the fetch of exportSanityDataset: the
\* request is rejected, the status is not ok, the response has no body, or it
\* has a body of `bytes` bytes.
SourceResponses ==
  {[fetch |-> "reject", ok |-> FALSE, body |-> FALSE, bytes |-> 0],
   [fetch |-> "ok", ok |-> FALSE, body |-> TRUE, bytes |-> 0],
   [fetch |-> "ok", ok |-> TRUE, body |-> FALSE, bytes |-> 0]}
  \cup {[fetch |-> "ok", ok |-> TRUE, body |-> TRUE, bytes |-> b] : b \in 0..(MaxSize + 1)}

\* The catch clause of exportSanityDataset: new Error(`Sanity export failed: ${errorMessage}`)
ExportError(msg) == WrapError("Sanity export failed", MkError("Error", msg))

\* The response checks of exportSanityDataset, in their order: Ok when the
\* response is written to data.ndjson, else the error thrown.
ResponseCheck(resp) ==
  IF resp.fetch = "reject" THEN ExportError("fetch rejected")
  ELSE IF ~resp.ok THEN ExportError("Export API request failed")
  ELSE IF ~resp.body THEN ExportError("No response body from export API")
  ELSE Ok

\* Faulty variant: a file of zero bytes passes the verification.
FileCheck_AcceptsEmpty(size) == Ok

\* `if (stats.size === 0) throw new Error('Export file is empty')`, wrapped by
\* the catch clause.
FileCheck(size) == IF size = 0 THEN ExportError("Export file is empty") ELSE Ok

\* exportSanityDataset(options) for one answer of the source: Ok or the error it
\* rejects with (the asset export that follows never makes it reject).
ExportSanityDataset(resp) ==
  IF ResponseCheck(resp) # Ok THEN ResponseCheck(resp) ELSE FileCheck(resp.bytes)

Started(stage) == trace' = IF attempt = 0 THEN Append(trace, stage) ELSE trace

\* The stage returned: runBackup goes on to the next statement.
Succeed(stage) ==
  /\ pc' = NextStage(stage)
  /\ attempt' = 0
  /\ lastError' = None
  /\ completed' = Append(completed, stage)
  /\ UNCHANGED <<caught, raised>>

\* The stage threw inside runBackup's try block.
Abort(stage, error) ==
  /\ pc' = "catch"
  /\ attempt' = 0
  /\ caught' = error
  /\ raised' = [kind |-> "error", stage |-> stage, error |-> error]
  /\ UNCHANGED <<completed, lastError>>

\* One attempt of a stage wrapped in withRetry failed with `error`.
FailAttempt(stage, error) ==
  /\ lastError' = error
  /\ IF RetryDecision(attempt, StageMaxRetries) = "throw"
     THEN /\ pc' = "catch"
          /\ attempt' = 0
          /\ caught' = RetryThrows(error)
          /\ raised' = [kind |-> "error", stage |-> stage, error |-> error]
          /\ UNCHANGED completed
     ELSE /\ attempt' = attempt + 1
          /\ UNCHANGED <<pc, caught, raised, completed>>

\* The bucket before the first run: up to MaxInit backups (archive and sidecar)
\* left by earlier runs, so that an older key has an older LastModified, and one
\* object that is no backup.
InitialStores ==
  {  {[key |-> ObjectKey(-i), size |-> 1, mtime |-> n + 1 - i] : i \in 1..n}
     \cup {[key |-> SidecarKey(ObjectKey(-i)), size |-> 1, mtime |-> n + 1 - i] : i \in 1..n}
     \cup {[key |-> <<0, "txt">>, size |-> 1, mtime |-> n + 1]}
   : n \in 0..MaxInit  }

\* The deployments explored: everything set, or one of the R2_* variables unset.
Environments == {R2Config} \cup {R2Config \ {v} : v \in R2Config}

\* No run has started yet, in the bucket chosen.
Idle ==
  /\ runs = 0
  /\ pc = "idle"
  /\ attempt = 0
  /\ caught = None
  /\ raised = None
  /\ pending = None
  /\ outcome = None
  /\ trace = <<>>
  /\ completed = <<>>
  /\ notes = <<>>
  /\ tempDir = FALSE
  /\ rmFailed = FALSE
  /\ localSize = [archive |-> 0, sidecar |-> 0]
  /\ storeAtStart = store
  /\ verified = {}
  /\ pruneCalls = 0
  /\ lastDelete = None
  /\ lastError = None
  /\ netCalls = {}
  /\ call = None
  /\ opts = None
  /\ delayMs = 0
  /\ retryLog = <<>>

Init ==
  /\ store \in InitialStores
  /\ retainCount \in 0..MaxRetain
  /\ env \in Environments
  /\ bulk = 0
  /\ Idle

\* runBackup is called; fs.mkdir creates the temporary directory or throws.
StartRun ==
  /\ pc \in {"idle", "done"}
  /\ runs < MaxRuns
  /\ runs' = runs + 1
  /\ storeAtStart' = store
  /\ trace' = <<>>
  /\ completed' = <<>>
  /\ notes' = <<>>
  /\ verified' = {}
  /\ pruneCalls' = 0
  /\ lastDelete' = None
  /\ pending' = None
  /\ outcome' = None
  /\ rmFailed' = FALSE
  /\ localSize' = [archive |-> 0, sidecar |-> 0]
  /\ attempt' = 0
  /\ \E ok \in BOOLEAN :
       IF ok
       THEN /\ tempDir' = TRUE
            /\ pc' = "export"
            /\ caught' = None
            /\ raised' = None
       ELSE /\ tempDir' = FALSE
            /\ pc' = "catch"
            /\ caught' = MkError("Error", "mkdir failed")
            /\ raised' = [kind |-> "error", stage |-> "mkdir",
                          error |-> MkError("Error", "mkdir failed")]
  /\ lastError' = None
  /\ netCalls' = {}
  /\ UNCHANGED <<store, retainCount, env, bulk, unitVars>>

\* Step 1: one attempt of exportSanityDataset under withRetry.
Export ==
  /\ pc = "export"
  /\ Started("export")
  /\ \E resp \in SourceResponses :
       LET r == ExportSanityDataset(resp)
       IN  IF r = Ok THEN Succeed("export") ELSE FailAttempt("export", r)
  /\ netCalls' = netCalls \cup {"source"}
  /\ UNCHANGED <<store, runs, retainCount, pending, outcome, notes, tempDir, rmFailed,
                 localSize, storeAtStart, verified, pruneCalls, lastDelete,
                 env, bulk, unitVars>>

\* Step 2: tar.create writes the archive or throws.
Archive ==
  /\ pc = "archive"
  /\ Started("archive")
  /\ \/ \E sz \in Sizes :
          /\ localSize' = [localSize EXCEPT !.archive = sz]
          /\ Succeed("archive")
     \/ /\ Abort("archive", MkError("TypeError", "tar failed"))
        /\ UNCHANGED localSize
  /\ UNCHANGED <<store, runs, retainCount, pending, outcome, notes, tempDir, rmFailed,
                 storeAtStart, verified, pruneCalls, lastDelete,
                 env, bulk, netCalls, unitVars>>

\* Steps 3 and 4: generateChecksum, the sidecar file, fs.stat of the archive.
Checksum ==
  /\ pc = "checksum"
  /\ Started("checksum")
  /\ \/ /\ localSize' = [localSize EXCEPT !.sidecar = SidecarBytes(ObjectKey(runs))]
        /\ Succeed("checksum")
     \/ /\ Abort("checksum", MkError("Error", "checksum failed"))
        /\ UNCHANGED localSize
  /\ UNCHANGED <<store, runs, retainCount, pending, outcome, notes, tempDir, rmFailed,
                 storeAtStart, verified, pruneCalls, lastDelete,
                 env, bulk, netCalls, unitVars>>

\* Step 5: one attempt of uploadToR2 under withRetry, for the archive or the sidecar.
Upload(stage, what, key, localBytes) ==
  /\ pc = stage
  /\ Started(stage)
  /\ \E resp \in UploadResponses(localBytes) :
       LET u == UploadToR2(env, store, key, localBytes, resp)
       IN  /\ store' = u.store
           /\ netCalls' = IF u.requests > 0 THEN netCalls \cup {"storage"} ELSE netCalls
           /\ IF u.result = Ok
              THEN /\ verified' = verified \cup {what}
                   /\ Succeed(stage)
              ELSE /\ UNCHANGED verified
                   /\ FailAttempt(stage, u.result)
  /\ UNCHANGED <<runs, retainCount, pending, outcome, notes, tempDir, rmFailed,
                 localSize, storeAtStart, pruneCalls, lastDelete, env, bulk, unitVars>>

UploadArchive == Upload("uploadArchive", "archive", ObjectKey(runs), localSize.archive)

UploadChecksum ==
  Upload("uploadChecksum", "sidecar", SidecarKey(ObjectKey(runs)), localSize.sidecar)

\* Step 6: one attempt of deleteOldBackups under withRetry.
Prune ==
  /\ pc = "prune"
  /\ Started("prune")
  /\ pruneCalls' = pruneCalls + 1
  /\ \E listOK \in BOOLEAN :
     \E resp \in DeleteResponses(BackupsToDelete(Backups(Listed(store, bulk)), retainCount)) :
       LET d == DeleteOldBackups(env, store, bulk, retainCount, listOK, resp)
       IN  /\ store' = d.store
           /\ netCalls' = IF d.requests > 0 THEN netCalls \cup {"storage"} ELSE netCalls
           /\ lastDelete' = IF d.request = None THEN lastDelete
                             ELSE [kind |-> "delete", keys |-> d.request.keys,
                                   before |-> d.request.before,
                                   failed |-> d.request.failed, call |-> pruneCalls + 1]
           /\ IF d.result = Ok THEN Succeed("prune") ELSE FailAttempt("prune", d.result)
  /\ UNCHANGED <<runs, retainCount, pending, outcome, notes, tempDir, rmFailed,
                 localSize, storeAtStart, verified, env, bulk, unitVars>>

\* Step 7: the success notification, then `return result`.
NotifySuccess ==
  /\ pc = "notify"
  /\ trace' = Append(trace, "notify")
  /\ \E url \in BOOLEAN, resp \in WebhookResponses :
       LET n == SendNotification(url, resp)
       IN  /\ notes' = Append(notes, [status |-> "success", error |-> <<>>,
                                      fetched |-> n.fetched, response |-> n.response,
                                      settles |-> n.settles])
           /\ IF n.settles = "resolved"
              THEN /\ pc' = AfterSuccessNotification
                   /\ completed' = Append(completed, "notify")
                   /\ pending' = [kind |-> "return",
                                  value |-> [objectKey |-> ObjectKey(runs),
                                             objectSize |-> localSize.archive]]
                   /\ caught' = IF AfterSuccessNotification = "catch"
                                 THEN MkError("Error", "output failed") ELSE caught
                   /\ UNCHANGED raised
              ELSE /\ pc' = "catch"
                   /\ caught' = MkError("Error", "notification failed")
                   /\ UNCHANGED <<completed, pending, raised>>
  /\ UNCHANGED <<store, runs, retainCount, attempt, outcome, tempDir, rmFailed,
                 localSize, storeAtStart, verified, pruneCalls, lastDelete,
                 env, bulk, lastError, netCalls, unitVars>>

\* The catch clause: the failure notification, then `throw error`.
NotifyFailure ==
  /\ pc = "catch"
  /\ trace' = Append(trace, "notify")
  /\ \E url \in BOOLEAN, resp \in WebhookResponses :
       LET n == SendNotification(url, resp)
           o == FailureNotification(caught)
       IN  /\ notes' = Append(notes, [status |-> o.status, error |-> o.error,
                                      fetched |-> n.fetched, response |-> n.response,
                                      settles |-> n.settles])
           /\ IF n.settles = "resolved"
              THEN /\ pending' = [kind |-> "throw", error |-> Rethrow(caught)]
                   /\ completed' = Append(completed, "notify")
              ELSE /\ pending' = [kind |-> "throw",
                                  error |-> MkError("Error", "notification failed")]
                   /\ UNCHANGED completed
  /\ pc' = "finally"
  /\ UNCHANGED <<store, runs, retainCount, attempt, caught, raised, outcome, tempDir,
                 rmFailed, localSize, storeAtStart, verified, pruneCalls, lastDelete,
                 env, bulk, lastError, netCalls, unitVars>>

\* The finally block: fs.rm of the temporary directory, its failure only logged.
Cleanup ==
  /\ pc = "finally"
  /\ trace' = Append(trace, "cleanup")
  /\ \E rmOK \in BOOLEAN :
       /\ tempDir' = IF rmOK THEN FALSE ELSE tempDir
       /\ rmFailed' = ~rmOK
       /\ outcome' = FinallyCompletion(pending, rmOK)
  /\ pc' = "done"
  /\ UNCHANGED <<store, runs, retainCount, attempt, caught, raised, pending, completed,
                 notes, localSize, storeAtStart, verified, pruneCalls, lastDelete,
                 env, bulk, lastError, netCalls, unitVars>>

Next ==
  \/ StartRun
  \/ Export
  \/ Archive
  \/ Checksum
  \/ UploadArchive
  \/ UploadChecksum
  \/ Prune
  \/ NotifySuccess
  \/ NotifyFailure
  \/ Cleanup

Spec == Init /\ [][Next]_vars

\* --------------------------------------- runs on a prefix with many objects
\* The prefix holds, in front of the backups, MaxKeys or nearly MaxKeys objects
\* that are no archives, so that the one page deleteOldBackups reads shows none
\* or only the first two of the objects of `store`.
InitLargeBucket ==
  /\ store \in InitialStores
  /\ retainCount \in 1..MaxRetain
  /\ env = R2Config
  /\ bulk \in {MaxKeys - 2, MaxKeys}
  /\ Idle

SpecLargeBucket == InitLargeBucket /\ [][Next]_vars

\* ------------------------------------------- deleteOldBackups on any listing
\* Buckets with up to MaxListed archives written in any order (distinct
\* LastModified), each with or without its sidecar, with or without an object
\* that is no backup.
ListingStores ==
  {  {[key |-> ObjectKey(i), size |-> 1, mtime |-> t[2][i]] : i \in 1..t[1]}
     \cup {[key |-> SidecarKey(ObjectKey(i)), size |-> 1, mtime |-> t[1] + 1] : i \in t[3]}
     \cup (IF t[4] THEN {[key |-> <<0, "txt">>, size |-> 1, mtime |-> t[1] + 1]} ELSE {})
   : t \in {u \in UNION {{n} \X [1..n -> 1..n] \X (SUBSET (1..n)) \X BOOLEAN :
                           n \in 0..MaxListed} :
              \A i, j \in 1..u[1] : u[2][i] = u[2][j] => i = j}  }

InitRetention ==
  /\ store \in ListingStores
  /\ runs = 0
  /\ retainCount \in 0..MaxListed
  /\ pc = "retention"
  /\ attempt = 0
  /\ caught = None
  /\ raised = None
  /\ pending = None
  /\ outcome = None
  /\ trace = <<>>
  /\ completed = <<>>
  /\ notes = <<>>
  /\ tempDir = FALSE
  /\ rmFailed = FALSE
  /\ localSize = [archive |-> 0, sidecar |-> 0]
  /\ storeAtStart = store
  /\ verified = {}
  /\ pruneCalls = 0
  /\ lastDelete = None
  /\ env = R2Config
  /\ bulk = 0
  /\ lastError = None
  /\ netCalls = {}
  /\ call = None
  /\ opts = None
  /\ delayMs = 0
  /\ retryLog = <<>>

\* One call of deleteOldBackups(prefix, retainCount) and its completion.
ApplyRetention ==
  /\ pc = "retention"
  /\ pc' = "retained"
  /\ pruneCalls' = pruneCalls + 1
  /\ \E listOK \in BOOLEAN :
     \E resp \in DeleteResponses(BackupsToDelete(Backups(store), retainCount)) :
       LET d == DeleteOldBackups(env, store, bulk, retainCount, listOK, resp)
       IN  /\ store' = d.store
           /\ lastDelete' = d.request
           /\ outcome' = IF d.result = Ok THEN [kind |-> "return", value |-> Ok]
                         ELSE [kind |-> "throw", error |-> d.result]
           /\ raised' = IF listOK THEN None
                        ELSE [kind |-> "error", stage |-> "list", error |-> d.result]
  /\ UNCHANGED <<runs, retainCount, attempt, caught, pending, trace, completed, notes,
                 tempDir, rmFailed, localSize, storeAtStart, verified,
                 env, bulk, lastError, netCalls, unitVars>>

NextRetention == ApplyRetention

SpecRetention == InitRetention /\ [][NextRetention]_vars

\* -------------------------------------------------------------- exportAssets
\* Faulty variant: every remaining URL is started at once.
BatchSize_Unbounded(left, assetConcurrency) == left

\* Length of urls.slice(i, i + assetConcurrency), `left` URLs remaining from i.
BatchSize(left, assetConcurrency) ==
  IF left < assetConcurrency THEN left ELSE assetConcurrency

\* Faulty variant: the batch is over as soon as one download has settled.
AllSettled_Any(batch) == \E i \in 1..Len(batch) : batch[i] # "pending"

\* await Promise.allSettled(...): every download of the batch has settled.
AllSettled(batch) == \A i \in 1..Len(batch) : batch[i] # "pending"

\* Faulty variant: a rejected download makes the export fail.
ExportAssetsOutcome_Throws(failed) ==
  IF failed > 0 THEN ExportError("Failed to download assets") ELSE Ok

\* exportAssets after the loop: the failures are counted and logged, and the
\* function returns; exportSanityDataset then resolves.
ExportAssetsOutcome(failed) == Ok

\* ------------------------------------------ the pipeline with an empty archive
\* Step 2 with the other outcome the file system allows: tar.create resolves
\* and fs.stat of the archive will report zero bytes.  runBackup reads
\* stats.size only to report it.
ArchiveEmpty ==
  /\ pc = "archive"
  /\ Started("archive")
  /\ localSize' = [localSize EXCEPT !.archive = 0]
  /\ Succeed("archive")
  /\ UNCHANGED <<store, runs, retainCount, pending, outcome, notes, tempDir, rmFailed,
                 storeAtStart, verified, pruneCalls, lastDelete,
                 env, bulk, netCalls, unitVars>>

InitEmptyArchive ==
  /\ store \in InitialStores
  /\ retainCount \in 1..MaxRetain
  /\ env = R2Config
  /\ bulk = 0
  /\ Idle

NextEmptyArchive ==
  \/ Next
  \/ ArchiveEmpty

SpecEmptyArchive == InitEmptyArchive /\ [][NextEmptyArchive]_vars

\* ------------------------------------------- two runs on the same prefix
\* Two calls of runBackup on the same dataset run at the same time.  Each has
\* its own temporary directory and its own position; the bucket is shared, and
\* every request to it is a step of its own.
ConcurrentRuns == {1, 2}

\* Retries of one stage explored when two runs are interleaved (withRetry is
\* called with StageMaxRetries).
MaxConcurrentRetries == 1

ConcurrentRetries ==
  IF MaxConcurrentRetries < StageMaxRetries THEN MaxConcurrentRetries ELSE StageMaxRetries

\* Position of run r (its stage and which request of the stage comes next) and
\* what it has done so far.
RunState(position) ==
  [pc |-> position, request |-> 1, attempt |-> 0, verified |-> {}, backups |-> <<>>,
   deleted |-> {}, result |-> None]

\* Bytes of the file run r uploads in the stage.
RunBytes(r, stage) ==
  IF stage = "uploadArchive" THEN 1 ELSE SidecarBytes(ObjectKey(r))

RunKey(r, stage) ==
  IF stage = "uploadArchive" THEN ObjectKey(r) ELSE SidecarKey(ObjectKey(r))

\* The attempt of a stage under withRetry failed: the stage is tried again from
\* its first request, or the run enters its catch clause.
RunFailAttempt(r, stage) ==
  IF RetryDecision(call[r].attempt, ConcurrentRetries) = "throw"
  THEN call' = [call EXCEPT ![r].pc = "catch", ![r].request = 1, ![r].attempt = 0]
  ELSE call' = [call EXCEPT ![r].pc = stage, ![r].request = 1, ![r].attempt = @ + 1]

\* The stage returned.
RunSucceed(r, stage) ==
  call' = [call EXCEPT ![r].pc = NextStage(stage), ![r].request = 1, ![r].attempt = 0,
                       ![r].verified = IF stage = "uploadArchive" THEN @ \cup {"archive"}
                                       ELSE IF stage = "uploadChecksum"
                                       THEN @ \cup {"sidecar"} ELSE @]

InitConcurrent ==
  /\ store \in InitialStores
  /\ retainCount = 1
  /\ env = R2Config
  /\ bulk = 0
  /\ Idle

\* Both runs are started.
ConcurrentStart ==
  /\ pc = "idle"
  /\ pc' = "concurrent"
  /\ call' = [r \in ConcurrentRuns |-> RunState("export")]
  /\ UNCHANGED <<store, runs, retainCount, attempt, caught, raised, pending, outcome,
                 trace, completed, notes, tempDir, rmFailed, localSize, storeAtStart,
                 verified, pruneCalls, lastDelete, env, bulk, lastError, netCalls, opts,
                 delayMs, retryLog>>

\* Steps 1 to 4 of run r, which touch only its own temporary directory: they
\* all succeed, or one of them throws.
RunLocal(r) ==
  /\ pc = "concurrent"
  /\ call[r].pc = "export"
  /\ \E ok \in BOOLEAN :
       call' = [call EXCEPT ![r].pc = IF ok THEN "uploadArchive" ELSE "catch"]
  /\ UNCHANGED <<store, runs, retainCount, pc, attempt, caught, raised, pending, outcome,
                 trace, completed, notes, tempDir, rmFailed, localSize, storeAtStart,
                 verified, pruneCalls, lastDelete, env, bulk, lastError, netCalls, opts,
                 delayMs, retryLog>>

\* uploadToR2 of run r sends its PutObjectCommand.
RunPut(r) ==
  /\ pc = "concurrent"
  /\ \E stage \in {"uploadArchive", "uploadChecksum"} :
       /\ call[r].pc = stage /\ call[r].request = 1
       /\ \E resp \in UploadResponses(RunBytes(r, stage)) :
            IF resp.put = "error"
            THEN RunFailAttempt(r, stage) /\ UNCHANGED store
            ELSE /\ store' = PutObject(store, RunKey(r, stage), resp.size)
                 /\ call' = [call EXCEPT ![r].request = 2]
  /\ UNCHANGED <<runs, retainCount, pc, attempt, caught, raised, pending, outcome,
                 trace, completed, notes, tempDir, rmFailed, localSize, storeAtStart,
                 verified, pruneCalls, lastDelete, env, bulk, lastError, netCalls, opts,
                 delayMs, retryLog>>

\* uploadToR2 of run r sends its HeadObjectCommand and compares the sizes; the
\* request fails when the object is gone.
RunHead(r) ==
  /\ pc = "concurrent"
  /\ \E stage \in {"uploadArchive", "uploadChecksum"} :
       /\ call[r].pc = stage /\ call[r].request = 2
       /\ \E answered \in BOOLEAN :
            IF /\ answered
               /\ RunKey(r, stage) \in Keys(store)
               /\ ~VerificationFails(HeadContentLength(store, RunKey(r, stage)),
                                     RunBytes(r, stage))
            THEN RunSucceed(r, stage)
            ELSE RunFailAttempt(r, stage)
  /\ UNCHANGED <<store, runs, retainCount, pc, attempt, caught, raised, pending, outcome,
                 trace, completed, notes, tempDir, rmFailed, localSize, storeAtStart,
                 verified, pruneCalls, lastDelete, env, bulk, lastError, netCalls, opts,
                 delayMs, retryLog>>

\* deleteOldBackups of run r sends its ListObjectsV2Command, filters and sorts
\* the answer and returns when it is within the retention limit.
RunList(r) ==
  /\ pc = "concurrent"
  /\ call[r].pc = "prune" /\ call[r].request = 1
  /\ \E listOK \in BOOLEAN :
       IF ~listOK THEN RunFailAttempt(r, "prune")
       ELSE LET backups == Backups(Listed(store, bulk))
            IN  IF WithinRetention(backups, retainCount)
                THEN RunSucceed(r, "prune")
                ELSE call' = [call EXCEPT ![r].request = 2, ![r].backups = backups]
  /\ UNCHANGED <<store, runs, retainCount, pc, attempt, caught, raised, pending, outcome,
                 trace, completed, notes, tempDir, rmFailed, localSize, storeAtStart,
                 verified, pruneCalls, lastDelete, env, bulk, lastError, netCalls, opts,
                 delayMs, retryLog>>

\* deleteOldBackups of run r sends its DeleteObjectsCommand for the backups it
\* listed.
RunDelete(r) ==
  /\ pc = "concurrent"
  /\ call[r].pc = "prune" /\ call[r].request = 2
  /\ LET toDelete == BackupsToDelete(call[r].backups, retainCount)
         keys     == KeysToDelete(toDelete)
     IN  \E resp \in DeleteResponses(toDelete) :
           IF resp.send = "error"
           THEN RunFailAttempt(r, "prune") /\ UNCHANGED store
           ELSE /\ store' = DeleteObjects(store, keys, resp.failed)
                /\ IF DeleteErrorsReported(resp.failed)
                   THEN IF RetryDecision(call[r].attempt, ConcurrentRetries) = "throw"
                        THEN call' = [call EXCEPT ![r].pc = "catch", ![r].request = 1,
                                        ![r].attempt = 0,
                                        ![r].deleted = @ \cup (keys \ resp.failed)]
                        ELSE call' = [call EXCEPT ![r].request = 1, ![r].attempt = @ + 1,
                                        ![r].deleted = @ \cup (keys \ resp.failed)]
                   ELSE call' = [call EXCEPT ![r].pc = NextStage("prune"),
                                   ![r].request = 1, ![r].attempt = 0,
                                   ![r].deleted = @ \cup (keys \ resp.failed)]
  /\ UNCHANGED <<runs, retainCount, pc, attempt, caught, raised, pending, outcome,
                 trace, completed, notes, tempDir, rmFailed, localSize, storeAtStart,
                 verified, pruneCalls, lastDelete, env, bulk, lastError, netCalls, opts,
                 delayMs, retryLog>>

\* Run r notifies, cleans up and delivers its outcome: its result after the
\* success notification, the error after the catch clause.
RunFinish(r) ==
  /\ pc = "concurrent"
  /\ call[r].pc \in {"notify", "catch"}
  /\ call' = [call EXCEPT ![r].pc = "done",
                          ![r].result = IF call[r].pc = "notify" THEN "return" ELSE "throw"]
  /\ UNCHANGED <<store, runs, retainCount, pc, attempt, caught, raised, pending, outcome,
                 trace, completed, notes, tempDir, rmFailed, localSize, storeAtStart,
                 verified, pruneCalls, lastDelete, env, bulk, lastError, netCalls, opts,
                 delayMs, retryLog>>

NextConcurrent ==
  \/ ConcurrentStart
  \/ \E r \in ConcurrentRuns : RunLocal(r)
  \/ \E r \in ConcurrentRuns : RunPut(r)
  \/ \E r \in ConcurrentRuns : RunHead(r)
  \/ \E r \in ConcurrentRuns : RunList(r)
  \/ \E r \in ConcurrentRuns : RunDelete(r)
  \/ \E r \in ConcurrentRuns : RunFinish(r)

SpecConcurrent == InitConcurrent /\ [][NextConcurrent]_vars

\* --------------------------------- deleteOldBackups on a full listing page
\* Contents of a listing of `a` archives and `o` sidecars (of the newest `o` of
\* the archives), given newest first: the order the sort of deleteOldBackups
\* leaves the archives in.
ListedContents(a, o) ==
  [i \in 1..(a + o) |->
     IF i <= a THEN [key |-> ObjectKey(-i), size |-> 1, mtime |-> a + 1 - i]
     ELSE [key |-> SidecarKey(ObjectKey(-(i - a))), size |-> 1, mtime |-> a + 1 - (i - a)]]

\* The numbers of archives in the listings explored: small ones, and the ones
\* around half a page and a whole page of MaxKeys objects.
ListedArchiveCounts ==
  (0..MaxListed) \cup {MaxKeys \div 2 - 1, MaxKeys \div 2, MaxKeys \div 2 + 1, MaxKeys}

\* The listings explored: one page of at most MaxKeys objects.
ListingPages ==
  {p \in [archives : ListedArchiveCounts, sidecars : (0..MaxListed) \cup {MaxKeys \div 2 - 1, MaxKeys \div 2}] :
     p.sidecars <= p.archives /\ p.archives + p.sidecars <= MaxKeys}

\* The DeleteObjectsCommand deleteOldBackups builds from the listing `contents`
\* (None when it returns before building one): the number of backups it names
\* and its Delete.Objects.
DeleteRequest(contents, retain) ==
  IF Len(contents) = 0 THEN None
  ELSE LET backups == SelectSeq(contents, LAMBDA obj : EndsWithTarGz(obj.key))
       IN  IF WithinRetention(backups, retain) THEN None
           ELSE LET backupsToDelete == BackupsToDelete(backups, retain)
                IN  [kind |-> "delete", backups |-> Len(backupsToDelete),
                     keys |-> KeysToDelete(backupsToDelete)]

InitBatch ==
  /\ store = {}
  /\ retainCount \in 0..MaxRetain
  /\ env \in ListingPages
  /\ bulk = 0
  /\ Idle

\* deleteOldBackups(prefix, retainCount) when the list request answers with the
\* page chosen: the request it sends, if any.
PrunePage ==
  /\ pc = "idle"
  /\ pc' = "pruned"
  /\ LET req == DeleteRequest(ListedContents(env.archives, env.sidecars), retainCount)
     IN  call' = IF req = None THEN [sent |-> FALSE, backups |-> 0, keys |-> 0]
                 ELSE [sent |-> TRUE, backups |-> req.backups,
                       keys |-> Cardinality(req.keys)]
  /\ outcome' = [kind |-> "return", value |-> Ok]
  /\ UNCHANGED <<store, runs, retainCount, attempt, caught, raised, pending, trace,
                 completed, notes, tempDir, rmFailed, localSize, storeAtStart, verified,
                 pruneCalls, lastDelete, env, bulk, lastError, netCalls, opts, delayMs,
                 retryLog>>

NextBatch == PrunePage

SpecBatch == InitBatch /\ [][NextBatch]_vars

\* ------------------------------------- runBackup: configuration and object keys
\* Strings are sequences of characters.  A variable of process.env is not set
\* (undefined) or set to a text, which can be empty.
Unset == [set |-> FALSE, text |-> <<>>]

Text(t) == [set |-> TRUE, text |-> t]

Digits == <<"0", "1", "2", "3", "4", "5", "6", "7", "8", "9">>

IsDigit(c) == \E d \in 1..Len(Digits) : Digits[d] = c

DigitValue(c) == (CHOOSE d \in 1..Len(Digits) : Digits[d] = c) - 1

\* A JavaScript number: NaN or an integer.
NaN == [nan |-> TRUE, value |-> 0]

Num(n) == [nan |-> FALSE, value |-> n]

\* The value of the leading digits of t, after acc.
RECURSIVE ParseDigits(_, _)
ParseDigits(t, acc) ==
  IF t = <<>> \/ ~IsDigit(Head(t)) THEN acc
  ELSE ParseDigits(Tail(t), 10 * acc + DigitValue(Head(t)))

RECURSIVE TrimStart(_)
TrimStart(t) == IF t # <<>> /\ Head(t) = " " THEN TrimStart(Tail(t)) ELSE t

\* parseInt(t, 10): leading blanks are skipped, a sign is read, then digits up
\* to the first other character; NaN when there is no digit.
ParseInt(t) ==
  LET u    == TrimStart(t)
      neg  == u # <<>> /\ Head(u) = "-"
      body == IF u # <<>> /\ Head(u) \in {"-", "+"} THEN Tail(u) ELSE u
  IN  IF body = <<>> \/ ~IsDigit(Head(body)) THEN NaN
      ELSE Num(IF neg THEN 0 - ParseDigits(body, 0) ELSE ParseDigits(body, 0))

\* process.env.X || fallback: the fallback for undefined and for ''.
OrDefault(v, fallback) == IF v.set /\ v.text # <<>> THEN v.text ELSE fallback

\* process.env.X === 'true'
IsTrue(v) == v.set /\ v.text = <<"t", "r", "u", "e">>

Sanity == <<"s", "a", "n", "i", "t", "y">>

Slash == <<"/">>

Dash == <<"-">>

TarGz == <<".", "t", "a", "r", ".", "g", "z">>

Sha256Ext == <<".", "s", "h", "a", "2", "5", "6">>

\* The config record runBackup builds from process.env.
BackupConfig(E) ==
  [projectId        |-> E.SANITY_PROJECT_ID.text,
   dataset          |-> E.SANITY_DATASET.text,
   includeDrafts    |-> IsTrue(E.INCLUDE_DRAFTS),
   includeAssets    |-> IsTrue(E.INCLUDE_ASSETS),
   assetConcurrency |-> ParseInt(OrDefault(E.ASSET_CONCURRENCY, <<"6">>)),
   retainCount      |-> ParseInt(OrDefault(E.RETAIN_COUNT, <<"7">>)),
   r2Prefix         |-> OrDefault(E.R2_PREFIX, Sanity)]

\* new Date().toISOString() at the hour hh of a fixed day.
IsoString(hh) ==
  <<"2", "0", "2", "4", "-", "0", "1", "-", "1", "5", "T">> \o hh
  \o <<":", "0", "0", ":", "0", "0", ".", "0", "0", "0", "Z">>

IsoTimes == {IsoString(<<"0", "3">>), IsoString(<<"1", "5">>)}

\* iso.replace(/[:.]/g, '-')
Timestamp(iso) ==
  [i \in 1..Len(iso) |-> IF iso[i] \in {":", "."} THEN "-" ELSE iso[i]]

\* `${projectId}/${dataset}/${projectId}-${dataset}-${timestamp}.tar.gz`
ArchiveObjectKey(config, timestamp) ==
  config.projectId \o Slash \o config.dataset \o Slash
  \o config.projectId \o Dash \o config.dataset \o Dash \o timestamp \o TarGz

\* `${objectKey}.sha256`
ChecksumObjectKey(objectKey) == objectKey \o Sha256Ext

\* `${projectId}/${dataset}/`, the prefix handed to deleteOldBackups.
PrunePrefix(config) == config.projectId \o Slash \o config.dataset \o Slash

\* The texts the optional variables are explored with.
FlagValues == {Unset, Text(<<>>), Text(<<"t", "r", "u", "e">>),
               Text(<<"f", "a", "l", "s", "e">>)}

NumberValues == {Unset, Text(<<>>), Text(<<"2">>), Text(<<" ", "1", "0">>),
                 Text(<<"3", "x">>), Text(<<"x">>)}

PrefixValues == {Unset, Text(<<>>), Text(<<"b", "a", "k">>)}

ProcessEnvs ==
  [SANITY_PROJECT_ID : {Text(<<"p", "1">>)},
   SANITY_DATASET    : {Text(<<"d", "s">>)},
   INCLUDE_DRAFTS    : FlagValues,
   INCLUDE_ASSETS    : FlagValues,
   ASSET_CONCURRENCY : NumberValues,
   RETAIN_COUNT      : NumberValues,
   R2_PREFIX         : PrefixValues]

InitConfig ==
  /\ store = {}
  /\ retainCount = 0
  /\ env \in ProcessEnvs
  /\ bulk = 0
  /\ Idle

\* runBackup computes the timestamp, reads the configuration and forms the keys
\* it uploads to and the prefix it prunes under.
Configure ==
  /\ pc = "idle"
  /\ pc' = "configured"
  /\ \E iso \in IsoTimes :
       LET config    == BackupConfig(env)
           objectKey == ArchiveObjectKey(config, Timestamp(iso))
       IN  call' = [config      |-> config,
                    iso         |-> iso,
                    objectKey   |-> objectKey,
                    checksumKey |-> ChecksumObjectKey(objectKey),
                    prunePrefix |-> PrunePrefix(config)]
  /\ UNCHANGED <<store, runs, retainCount, attempt, caught, raised, pending, outcome,
                 trace, completed, notes, tempDir, rmFailed, localSize, storeAtStart,
                 verified, pruneCalls, lastDelete, env, bulk, lastError, netCalls, opts,
                 delayMs, retryLog>>

NextConfig == Configure

SpecConfig == InitConfig /\ [][NextConfig]_vars

\* ------------------------------------ exportAssets: the loop over the batches
\* i < urls.length for a JavaScript number i: false for NaN.
LessThan(i, n) == ~i.nan /\ i.value < n

\* a + b for JavaScript numbers.
Plus(a, b) == IF a.nan \/ b.nan THEN NaN ELSE Num(a.value + b.value)

\* The index Array.prototype.slice makes of an argument k for an array of
\* length len: NaN counts as 0, a negative k counts from the end, and the
\* result is kept within 0..len.
RelativeIndex(len, k) ==
  IF k.nan THEN 0
  ELSE IF k.value < 0 THEN (IF len + k.value < 0 THEN 0 ELSE len + k.value)
  ELSE IF k.value > len THEN len ELSE k.value

\* urls.slice(start, end): the positions of urls in the batch.
BatchPositions(len, start, end) ==
  {j \in 1..len : RelativeIndex(len, start) < j /\ j <= RelativeIndex(len, end)}

\* The values of ASSET_CONCURRENCY explored.
ConcurrencyValues ==
  {Unset, Text(<<"0">>), Text(<<"1">>), Text(<<"2">>), Text(<<"-", "1">>), Text(<<"x">>)}

\* The loop index of exportAssets is followed down to -MaxUnderrun.
MaxUnderrun == 2

InitAssets ==
  /\ store = {}
  /\ retainCount = 0
  /\ env \in [SANITY_PROJECT_ID : {Text(<<"p", "1">>)},
              SANITY_DATASET    : {Text(<<"d", "s">>)},
              INCLUDE_DRAFTS    : {Unset},
              INCLUDE_ASSETS    : {Text(<<"t", "r", "u", "e">>)},
              ASSET_CONCURRENCY : ConcurrencyValues,
              RETAIN_COUNT      : {Unset},
              R2_PREFIX         : {Unset}]
  /\ bulk = 0
  /\ Idle

\* exportAssets is called with config.assetConcurrency and finds `n` distinct
\* asset URLs in data.ndjson; without any it returns at once.
AssetsFound ==
  /\ pc = "idle"
  /\ \E n \in 0..MaxAssets :
       /\ call' = [urls |-> n, assetConcurrency |-> BackupConfig(env).assetConcurrency,
                   i |-> Num(0), attempts |-> [u \in 1..n |-> 0], results |-> <<>>]
       /\ pc' = IF n = 0 THEN "exported" ELSE "assets"
  /\ UNCHANGED <<store, runs, retainCount, attempt, caught, raised, pending, outcome,
                 trace, completed, notes, tempDir, rmFailed, localSize, storeAtStart,
                 verified, pruneCalls, lastDelete, env, bulk, lastError, netCalls, opts,
                 delayMs, retryLog>>

\* One pass of the loop: the batch is sliced, every download of it settles,
\* the results are pushed and the index is advanced by assetConcurrency.
AssetsBatch ==
  /\ pc = "assets"
  /\ LessThan(call.i, call.urls)
  /\ call.i.value > -MaxUnderrun
  /\ LET batch == BatchPositions(call.urls, call.i, Plus(call.i, call.assetConcurrency))
     IN  \E rejected \in SUBSET batch :
           call' = [call EXCEPT
                      !.attempts = [u \in 1..call.urls |-> IF u \in batch THEN @[u] + 1 ELSE @[u]],
                      !.results = @ \o [j \in 1..Cardinality(batch) |->
                                          IF j <= Cardinality(rejected) THEN "rejected"
                                          ELSE "fulfilled"],
                      !.i = Plus(call.i, call.assetConcurrency)]
  /\ UNCHANGED <<store, runs, retainCount, pc, attempt, caught, raised, pending, outcome,
                 trace, completed, notes, tempDir, rmFailed, localSize, storeAtStart,
                 verified, pruneCalls, lastDelete, env, bulk, lastError, netCalls, opts,
                 delayMs, retryLog>>

\* The loop condition is false: the results are counted and exportAssets returns.
AssetsReturn ==
  /\ pc = "assets"
  /\ ~LessThan(call.i, call.urls)
  /\ pc' = "exported"
  /\ outcome' = [kind |-> "return", value |-> Ok]
  /\ UNCHANGED <<store, runs, retainCount, attempt, caught, raised, pending, trace,
                 completed, notes, tempDir, rmFailed, localSize, storeAtStart, verified,
                 pruneCalls, lastDelete, env, bulk, lastError, netCalls, call, opts,
                 delayMs, retryLog>>

NextAssets == AssetsFound \/ AssetsBatch \/ AssetsReturn

SpecAssets == InitAssets /\ [][NextAssets]_vars

\* The event loop runs every continuation that is ready.
SpecAssetsFair == SpecAssets /\ WF_vars(NextAssets)

\* ------------------------------------------- the push-notification script
\* .github/scripts/process-pushes.js, run by a scheduled workflow.  Times are
\* whole minutes; every push and every start of the script has its own minute.
\* config.repositories of monitored-repos.json
MonitoredRepos == <<"web", "api">>

\* Date.now() - 5 * 60 * 1000, in minutes
DefaultWindow == 5

\* The clock at the start, and the minutes explored after it.
ClockStart == DefaultWindow

MaxMinutes == 4

NoFile == [exists |-> FALSE, time |-> 0]

CheckFile(t) == [exists |-> TRUE, time |-> t]

\* getLastCheckTime(): the content of .last-check, or five minutes ago.
GetLastCheckTime(file, now) == IF file.exists THEN file.time ELSE now - DefaultWindow

\* updateLastCheckTime(time): the file is written, or the failure is only logged.
UpdateLastCheckTime(file, time, writeOK) == IF writeOK THEN CheckFile(time) ELSE file

\* github.rest.repos.listCommits({ sha: 'main', since }): the commits of the
\* repository from `since` on.
ListCommits(commits, since) == {t \in commits : t >= since}

\* The world of the script: the clock, the .last-check file, the commits on
\* main of every repository, and the commits listed so far by an iteration that
\* ended without error.
InitPushes ==
  /\ store = {}
  /\ retainCount = 0
  /\ env \in [now : {ClockStart}, lastCheck : {NoFile, CheckFile(ClockStart)},
              commits : {[r \in SeqToSet(MonitoredRepos) |-> {}]},
              examined : {{}}]
  /\ bulk = 0
  /\ Idle

\* A commit is pushed to main of repository r.
PushCommit(r) ==
  /\ env.now < ClockStart + MaxMinutes
  /\ env' = [env EXCEPT !.now = @ + 1, !.commits[r] = @ \cup {env.now + 1}]
  /\ UNCHANGED <<store, runs, retainCount, pc, attempt, caught, raised, pending, outcome,
                 trace, completed, notes, tempDir, rmFailed, localSize, storeAtStart,
                 verified, pruneCalls, lastDelete, bulk, lastError, netCalls, call, opts,
                 delayMs, retryLog>>

\* The script starts: the configuration is read (core.setFailed and return when
\* that fails), then the last check time and the current time are taken.
ScriptStart ==
  /\ pc \in {"idle", "done"}
  /\ env.now < ClockStart + MaxMinutes
  /\ env' = [env EXCEPT !.now = @ + 1]
  /\ \E configOK \in BOOLEAN :
       IF configOK
       THEN /\ pc' = "repos"
            /\ call' = [lastCheckTime |-> GetLastCheckTime(env.lastCheck, env.now + 1),
                        currentTime |-> env.now + 1, next |-> 1, failed |-> {}]
       ELSE /\ pc' = "done"
            /\ call' = None
  /\ UNCHANGED <<store, runs, retainCount, attempt, caught, raised, pending, outcome,
                 trace, completed, notes, tempDir, rmFailed, localSize, storeAtStart,
                 verified, pruneCalls, lastDelete, bulk, lastError, netCalls, opts,
                 delayMs, retryLog>>

\* One iteration of the loop over the repositories: the commits since the last
\* check are listed and the latest is summarised and announced, or a request
\* throws and the catch clause logs it and goes on with the next repository.
ProcessRepo ==
  /\ pc = "repos"
  /\ call.next <= Len(MonitoredRepos)
  /\ LET repoName == MonitoredRepos[call.next]
     IN  \E ok \in BOOLEAN :
           IF ok
           THEN /\ env' = [env EXCEPT !.examined = @ \cup
                             {<<repoName, t>> :
                                t \in ListCommits(env.commits[repoName], call.lastCheckTime)}]
                /\ call' = [call EXCEPT !.next = @ + 1]
           ELSE /\ call' = [call EXCEPT !.next = @ + 1, !.failed = @ \cup {repoName}]
                /\ UNCHANGED env
  /\ UNCHANGED <<store, runs, retainCount, pc, attempt, caught, raised, pending, outcome,
                 trace, completed, notes, tempDir, rmFailed, localSize, storeAtStart,
                 verified, pruneCalls, lastDelete, bulk, lastError, netCalls, opts,
                 delayMs, retryLog>>

\* After the loop: updateLastCheckTime(currentTime).
ScriptEnd ==
  /\ pc = "repos"
  /\ call.next > Len(MonitoredRepos)
  /\ \E writeOK \in BOOLEAN :
       env' = [env EXCEPT !.lastCheck = UpdateLastCheckTime(@, call.currentTime, writeOK)]
  /\ pc' = "done"
  /\ UNCHANGED <<store, runs, retainCount, attempt, caught, raised, pending, outcome,
                 trace, completed, notes, tempDir, rmFailed, localSize, storeAtStart,
                 verified, pruneCalls, lastDelete, bulk, lastError, netCalls, call, opts,
                 delayMs, retryLog>>

NextPushes ==
  \/ \E r \in SeqToSet(MonitoredRepos) : PushCommit(r)
  \/ ScriptStart
  \/ ProcessRepo
  \/ ScriptEnd

SpecPushes == InitPushes /\ [][NextPushes]_vars

\* ------------------------------------------- checksum sidecar: write and parse
Whitespace == {" ", "\t"}

HexDigits == {"a", "b", "c", "d", "e", "f"} \cup SeqToSet(Digits)

UpperHex == <<"A", "B", "C", "D", "E", "F">>

LowerHex == <<"a", "b", "c", "d", "e", "f">>

\* [a-f0-9] under the flag i
IsHex(c) == c \in HexDigits \cup SeqToSet(UpperHex)

\* toLowerCase of a character of the checksum group.
ToLowerCase(c) ==
  IF c \in SeqToSet(UpperHex)
  THEN LowerHex[CHOOSE k \in 1..Len(UpperHex) : UpperHex[k] = c]
  ELSE c

RECURSIVE TrimLeft(_)
TrimLeft(t) == IF t # <<>> /\ Head(t) \in Whitespace THEN TrimLeft(Tail(t)) ELSE t

RECURSIVE TrimRight(_)
TrimRight(t) ==
  IF t # <<>> /\ t[Len(t)] \in Whitespace THEN TrimRight(SubSeq(t, 1, Len(t) - 1)) ELSE t

\* String.prototype.trim
Trim(t) == TrimRight(TrimLeft(t))

\* content.split('\n'): the pieces between the line feeds.
RECURSIVE SplitLines(_, _)
SplitLines(t, piece) ==
  IF t = <<>> THEN <<piece>>
  ELSE IF Head(t) = "\n" THEN <<piece>> \o SplitLines(Tail(t), <<>>)
  ELSE SplitLines(Tail(t), Append(piece, Head(t)))

\* Length of the longest prefix of t whose characters satisfy the test.
RECURSIVE HexRun(_)
HexRun(t) == IF t # <<>> /\ IsHex(Head(t)) THEN 1 + HexRun(Tail(t)) ELSE 0

RECURSIVE SpaceRun(_)
SpaceRun(t) == IF t # <<>> /\ Head(t) \in Whitespace THEN 1 + SpaceRun(Tail(t)) ELSE 0

\* trimmedLine.match(/^([a-f0-9]+)\s+(.+)$/i): None, or the two groups.  The
\* first group takes every leading hex character (a shorter one would be
\* followed by a hex character, not by white space); the white space gives its
\* last character to the second group when nothing else is left for it.
MatchLine(t) ==
  LET h    == HexRun(t)
      rest == SubSeq(t, h + 1, Len(t))
      w    == SpaceRun(rest)
      name == SubSeq(rest, w + 1, Len(rest))
  IN  IF h = 0 \/ w = 0 THEN None
      ELSE IF name # <<>> THEN [checksum |-> SubSeq(t, 1, h), filename |-> name]
      ELSE IF w >= 2 THEN [checksum |-> SubSeq(t, 1, h), filename |-> <<rest[w]>>]
      ELSE None

\* checksums.set(key, value) on a map kept as a set of entries.
MapSet(m, key, value) ==
  {e \in m : e.filename # key} \cup {[filename |-> key, checksum |-> value]}

\* The loop of parseChecksumFile over lines[i..].
RECURSIVE ParseLines(_, _)
ParseLines(lines, checksums) ==
  IF lines = <<>> THEN checksums
  ELSE LET trimmedLine == Trim(Head(lines))
           match       == IF trimmedLine = <<>> THEN None ELSE MatchLine(trimmedLine)
       IN  ParseLines(Tail(lines),
             IF match = None THEN checksums
             ELSE MapSet(checksums, Trim(match.filename),
                         [k \in 1..Len(match.checksum) |-> ToLowerCase(match.checksum[k])]))

ParseChecksumFile(content) == ParseLines(SplitLines(content, <<>>), {})

\* Faulty variant: nothing separates digest and name.
SidecarLine_NoSeparator(checksum, name) == checksum \o name \o <<"\n">>

\* `${checksum}  ${name}\n`, the text runBackup writes to the sidecar file.
SidecarLine(checksum, name) == checksum \o <<" ", " ">> \o name \o <<"\n">>

\* All texts of at most n characters of the set chars.
TextsUpTo(chars, n) == UNION {[1..k -> chars] : k \in 0..n}

\* The digests, file names and further lines explored.
Checksums == TextsUpTo({"a", "1"}, MaxDigestLen) \ {<<>>}

FileNames == TextsUpTo({"a", "x", " "}, MaxNameLen)

OtherLines == TextsUpTo({"a", "x", " ", "#"}, MaxLineLen)

InitChecksum ==
  /\ store = {}
  /\ retainCount = 0
  /\ env \in [checksum : Checksums, filename : FileNames, other : OtherLines]
  /\ bulk = 0
  /\ Idle

\* The sidecar text is written, followed by one further line.
WriteSidecar ==
  /\ pc = "idle"
  /\ pc' = "written"
  /\ call' = [content |-> SidecarLine(env.checksum, env.filename) \o env.other,
              checksums |-> {}]
  /\ UNCHANGED <<store, runs, retainCount, attempt, caught, raised, pending, outcome,
                 trace, completed, notes, tempDir, rmFailed, localSize, storeAtStart,
                 verified, pruneCalls, lastDelete, env, bulk, lastError, netCalls, opts,
                 delayMs, retryLog>>

\* parseChecksumFile(content) returns its map.
ParseSidecar ==
  /\ pc = "written"
  /\ pc' = "parsed"
  /\ call' = [call EXCEPT !.checksums = ParseChecksumFile(call.content)]
  /\ outcome' = [kind |-> "return", value |-> Ok]
  /\ UNCHANGED <<store, runs, retainCount, attempt, caught, raised, pending,
                 trace, completed, notes, tempDir, rmFailed, localSize, storeAtStart,
                 verified, pruneCalls, lastDelete, env, bulk, lastError, netCalls, opts,
                 delayMs, retryLog>>

NextChecksum ==
  \/ WriteSidecar
  \/ ParseSidecar

SpecChecksum == InitChecksum /\ [][NextChecksum]_vars

\* --------------------------------------------- exportSanityDataset on its own
InitExport ==
  /\ store = {}
  /\ retainCount = 0
  /\ env = R2Config
  /\ bulk = 0
  /\ Idle

\* The export call settles: it resolves, or rejects with `error`.
ExportSettles(result) ==
  /\ pc' = "exported"
  /\ outcome' = IF result = Ok THEN [kind |-> "return", value |-> Ok]
                ELSE [kind |-> "throw", error |-> result]

\* exportSanityDataset is called with includeAssets set or not; the fetch of the
\* export URL is answered and the response is checked.
ExportFetch ==
  /\ pc = "idle"
  /\ netCalls' = netCalls \cup {"source"}
  /\ \E ia \in BOOLEAN, n \in 1..MaxConcurrency, resp \in SourceResponses :
       /\ call' = [includeAssets |-> ia, assetConcurrency |-> n, response |-> resp,
                   fileBytes |-> -1, assetsCalled |-> FALSE, urls |-> 0, batch |-> <<>>,
                   results |-> <<>>]
       /\ IF ResponseCheck(resp) = Ok
          THEN pc' = "write" /\ UNCHANGED outcome
          ELSE ExportSettles(ResponseCheck(resp))
  /\ UNCHANGED <<store, runs, retainCount, attempt, caught, raised, pending, trace,
                 completed, notes, tempDir, rmFailed, localSize, storeAtStart, verified,
                 pruneCalls, lastDelete, env, bulk, lastError, opts, delayMs, retryLog>>

\* fs.writeFile(exportFile, Buffer.from(arrayBuffer))
ExportWrite ==
  /\ pc = "write"
  /\ pc' = "verify"
  /\ call' = [call EXCEPT !.fileBytes = call.response.bytes]
  /\ UNCHANGED <<store, runs, retainCount, attempt, caught, raised, pending, outcome, trace,
                 completed, notes, tempDir, rmFailed, localSize, storeAtStart, verified,
                 pruneCalls, lastDelete, env, bulk, lastError, netCalls, opts, delayMs,
                 retryLog>>

\* fs.stat of the export file and the empty-file check; then exportAssets is
\* called if includeAssets: it reads the file and finds `n` distinct asset URLs.
ExportVerify ==
  /\ pc = "verify"
  /\ IF FileCheck(call.fileBytes) # Ok
     THEN ExportSettles(FileCheck(call.fileBytes)) /\ UNCHANGED call
     ELSE IF ~call.includeAssets
     THEN ExportSettles(Ok) /\ UNCHANGED call
     ELSE \E n \in 0..(IF call.fileBytes = 0 THEN 0 ELSE MaxAssets) :
            /\ call' = [call EXCEPT !.assetsCalled = TRUE, !.urls = n]
            /\ IF n = 0 THEN ExportSettles(Ok)
               ELSE pc' = "download" /\ UNCHANGED outcome
  /\ UNCHANGED <<store, runs, retainCount, attempt, caught, raised, pending, trace,
                 completed, notes, tempDir, rmFailed, localSize, storeAtStart, verified,
                 pruneCalls, lastDelete, env, bulk, lastError, netCalls, opts, delayMs,
                 retryLog>>

\* The loop of exportAssets starts its next batch: downloadAsset is called for
\* each URL of urls.slice(i, i + assetConcurrency) and every call runs up to its
\* fetch.
ExportBatch ==
  /\ pc = "download"
  /\ call.batch = <<>>
  /\ Len(call.results) < call.urls
  /\ netCalls' = netCalls \cup {"cdn"}
  /\ LET k == BatchSize(call.urls - Len(call.results), call.assetConcurrency)
     IN  call' = [call EXCEPT !.batch = [i \in 1..k |-> "pending"]]
  /\ UNCHANGED <<store, runs, retainCount, pc, attempt, caught, raised, pending, outcome,
                 trace, completed, notes, tempDir, rmFailed, localSize, storeAtStart,
                 verified, pruneCalls, lastDelete, env, bulk, lastError, opts, delayMs,
                 retryLog>>

\* One download in flight settles: the asset was written, or downloadAsset
\* threw.  The downloads of a batch settle in any order.
ExportDownload ==
  /\ pc = "download"
  /\ \E i \in 1..Len(call.batch), r \in {"fulfilled", "rejected"} :
       /\ call.batch[i] = "pending"
       /\ call' = [call EXCEPT !.batch[i] = r]
  /\ UNCHANGED <<store, runs, retainCount, pc, attempt, caught, raised, pending, outcome,
                 trace, completed, notes, tempDir, rmFailed, localSize, storeAtStart,
                 verified, pruneCalls, lastDelete, env, bulk, lastError, netCalls, opts,
                 delayMs, retryLog>>

\* Promise.allSettled of the batch resolves and its results are pushed.  After
\* the last batch exportAssets counts the failures and the export settles.
ExportBatchSettled ==
  /\ pc = "download"
  /\ call.batch # <<>>
  /\ AllSettled(call.batch)
  /\ LET results == call.results \o call.batch
         failed  == Cardinality({i \in 1..Len(results) : results[i] = "rejected"})
     IN  /\ call' = [call EXCEPT !.results = results, !.batch = <<>>]
         /\ IF Len(results) >= call.urls
            THEN ExportSettles(ExportAssetsOutcome(failed))
            ELSE UNCHANGED <<pc, outcome>>
  /\ UNCHANGED <<store, runs, retainCount, attempt, caught, raised, pending, trace,
                 completed, notes, tempDir, rmFailed, localSize, storeAtStart, verified,
                 pruneCalls, lastDelete, env, bulk, lastError, netCalls, opts, delayMs,
                 retryLog>>

NextExport ==
  \/ ExportFetch
  \/ ExportWrite
  \/ ExportVerify
  \/ ExportBatch
  \/ ExportDownload
  \/ ExportBatchSettled

SpecExport == InitExport /\ [][NextExport]_vars

\* ------------------------------------------ withExponentialBackoff on its own
InitRetry ==
  /\ store = {}
  /\ retainCount = 0
  /\ env = R2Config
  /\ bulk = 0
  /\ Idle

\* withExponentialBackoff(fn, options) is called: the options are
\* destructured, delayMs starts at initialDelayMs and the loop at attempt 0.
\* `call` keeps what the caller and the clock observe: the function called, how
\* each invocation of fn settled, and the delays that were awaited.
RetryCall ==
  /\ pc = "idle"
  /\ pc' = "attempt"
  /\ opts' \in RetryOptionSets
  /\ delayMs' = opts'.initialDelayMs
  /\ attempt' = 0
  /\ call' = [fn |-> "withExponentialBackoff", settled |-> <<>>, waits |-> <<>>]
  /\ UNCHANGED <<store, runs, retainCount, caught, raised, pending, outcome, trace,
                 completed, notes, tempDir, rmFailed, localSize, storeAtStart, verified,
                 pruneCalls, lastDelete, env, bulk, lastError, netCalls, retryLog>>

\* One turn of the loop: fn() resolves and its value is returned, or it rejects
\* and the catch clause runs: throw on the last attempt or when shouldRetry
\* rejects, else onRetry (whose exception leaves the function), the delay, and
\* the next delayMs.
RetryAttempt ==
  /\ pc = "attempt"
  /\ call.fn = "withExponentialBackoff"
  /\ \/ \E v \in FnValues :
          /\ pc' = "settled"
          /\ outcome' = [kind |-> "return", value |-> v]
          /\ call' = [call EXCEPT !.settled = Append(@, v)]
          /\ UNCHANGED <<attempt, lastError, delayMs, retryLog>>
     \/ \E e \in FnErrors :
          /\ lastError' = e
          /\ IF ExitsLoop(attempt, opts.maxRetries) \/ ~opts.shouldRetry
             THEN /\ pc' = "settled"
                  /\ outcome' = [kind |-> "throw", error |-> RetryThrows(e)]
                  /\ call' = [call EXCEPT !.settled = Append(@, e)]
                  /\ UNCHANGED <<attempt, delayMs, retryLog>>
             ELSE LET nextDelayMs == NextDelay(delayMs, opts.maxDelayMs)
                  IN  /\ retryLog' = IF opts.onRetry = "none" THEN retryLog
                                     ELSE Append(retryLog, [attempt |-> attempt + 1,
                                                            error |-> e,
                                                            nextDelayMs |-> nextDelayMs])
                      /\ IF opts.onRetry = "throws"
                         THEN /\ pc' = "settled"
                              /\ outcome' = [kind |-> "throw", error |-> HookError]
                              /\ call' = [call EXCEPT !.settled = Append(@, e)]
                              /\ UNCHANGED <<attempt, delayMs>>
                         ELSE /\ delayMs' = Backoff(delayMs, opts.backoffMultiplier)
                              /\ attempt' = attempt + 1
                              /\ call' = [call EXCEPT !.settled = Append(@, e),
                                                      !.waits = Append(@, nextDelayMs)]
                              /\ UNCHANGED <<pc, outcome>>
  /\ UNCHANGED <<store, runs, retainCount, caught, raised, pending, trace,
                 completed, notes, tempDir, rmFailed, localSize, storeAtStart, verified,
                 pruneCalls, lastDelete, env, bulk, netCalls, opts>>

NextRetry ==
  \/ RetryCall
  \/ RetryAttempt

SpecRetry == InitRetry /\ [][NextRetry]_vars

\* ----------------------------------- retryWithJitter, next to the plain variant
\* retryWithJitter(fn, options) is called.
JitterCall ==
  /\ pc = "idle"
  /\ pc' = "attempt"
  /\ opts' \in JitterOptionSets
  /\ delayMs' = opts'.initialDelayMs
  /\ attempt' = 0
  /\ call' = [fn |-> "retryWithJitter", settled |-> <<>>, waits |-> <<>>]
  /\ UNCHANGED <<store, runs, retainCount, caught, raised, pending, outcome, trace,
                 completed, notes, tempDir, rmFailed, localSize, storeAtStart, verified,
                 pruneCalls, lastDelete, env, bulk, lastError, netCalls, retryLog>>

\* One turn of retryWithJitter's loop: fn() resolves and its value is returned,
\* or it rejects: a RetryError on the last attempt, the error itself when
\* shouldRetry rejects, else the jitter is drawn, onRetry is called with the
\* capped sum (its exception leaves the function), the rounded sum is awaited
\* and delayMs is multiplied.
JitterAttempt ==
  /\ pc = "attempt"
  /\ call.fn = "retryWithJitter"
  /\ \/ \E v \in FnValues :
          /\ pc' = "settled"
          /\ outcome' = [kind |-> "return", value |-> v]
          /\ call' = [call EXCEPT !.settled = Append(@, v)]
          /\ UNCHANGED <<attempt, lastError, delayMs, retryLog>>
     \/ \E e \in FnErrors :
          /\ lastError' = e
          /\ IF ExitsLoop(attempt, opts.maxRetries)
             THEN /\ pc' = "settled"
                  /\ outcome' = [kind |-> "throw", error |-> RetryError(opts.maxRetries, e)]
                  /\ call' = [call EXCEPT !.settled = Append(@, e)]
                  /\ UNCHANGED <<attempt, delayMs, retryLog>>
             ELSE IF ~opts.shouldRetry
             THEN /\ pc' = "settled"
                  /\ outcome' = [kind |-> "throw", error |-> RetryThrows(e)]
                  /\ call' = [call EXCEPT !.settled = Append(@, e)]
                  /\ UNCHANGED <<attempt, delayMs, retryLog>>
             ELSE \E r \in JitterDraws :
                  LET nextDelayMs == JitterNextDelay(delayMs, opts.maxDelayMs, r)
                  IN  /\ retryLog' = IF opts.onRetry = "none" THEN retryLog
                                     ELSE Append(retryLog, [attempt |-> attempt + 1,
                                                            error |-> e,
                                                            nextDelayMs |-> nextDelayMs])
                      /\ IF opts.onRetry = "throws"
                         THEN /\ pc' = "settled"
                              /\ outcome' = [kind |-> "throw", error |-> HookError]
                              /\ call' = [call EXCEPT !.settled = Append(@, e)]
                              /\ UNCHANGED <<attempt, delayMs>>
                         ELSE /\ delayMs' = Backoff(delayMs, opts.backoffMultiplier)
                              /\ attempt' = attempt + 1
                              /\ call' = [call EXCEPT
                                            !.settled = Append(@, e),
                                            !.waits = Append(@, MathRound(nextDelayMs,
                                                                          DelayDen))]
                              /\ UNCHANGED <<pc, outcome>>
  /\ UNCHANGED <<store, runs, retainCount, caught, raised, pending, trace,
                 completed, notes, tempDir, rmFailed, localSize, storeAtStart, verified,
                 pruneCalls, lastDelete, env, bulk, netCalls, opts>>

\* Either function is called.
NextRetryVariants ==
  \/ RetryCall
  \/ RetryAttempt
  \/ JitterCall
  \/ JitterAttempt

SpecRetryVariants == InitRetry /\ [][NextRetryVariants]_vars

\* ------------------------------------------------------ uploadToR2 on its own
\* Sizes of the local file handed to uploadToR2.
UploadSizes == 1..(MaxSize + 1) \cup {MultipartThreshold - 1, MultipartThreshold}

\* Buckets an upload can meet: those left by earlier runs, some of them with an
\* object of an earlier, failed attempt under the key of the run.
UploadStores ==
  InitialStores
  \cup {S \cup {[key |-> ObjectKey(1), size |-> 0, mtime |-> Now(S)]} : S \in InitialStores}

InitUpload ==
  /\ store \in UploadStores
  /\ retainCount = 0
  /\ env \in SUBSET R2Config
  /\ bulk = 0
  /\ Idle

\* One call of uploadToR2(filePath, objectKey) and its completion.
ApplyUpload ==
  /\ pc = "idle"
  /\ pc' = "uploaded"
  /\ \E key \in {ObjectKey(1), SidecarKey(ObjectKey(1))}, bytes \in UploadSizes :
     \E resp \in UploadResponses(bytes) :
       LET u == UploadToR2(env, store, key, bytes, resp)
       IN  /\ store' = u.store
           /\ call' = [key |-> key, localBytes |-> bytes, requests |-> u.requests,
                       transfer |-> IF u.requests >= 1 THEN TransferStrategy(bytes)
                                    ELSE "none",
                       put |-> IF u.requests >= 1 THEN resp.put ELSE "none",
                       size |-> IF u.requests >= 2 THEN resp.size ELSE 0,
                       head |-> IF u.requests >= 2 THEN resp.head ELSE "none"]
           /\ netCalls' = IF u.requests > 0 THEN netCalls \cup {"storage"} ELSE netCalls
           /\ outcome' = IF u.result = Ok THEN [kind |-> "return", value |-> Ok]
                         ELSE [kind |-> "throw", error |-> u.result]
  /\ UNCHANGED <<runs, retainCount, attempt, caught, raised, pending, trace, completed,
                 notes, tempDir, rmFailed, localSize, storeAtStart, verified, pruneCalls,
                 lastDelete, env, bulk, lastError, opts, delayMs, retryLog>>

NextUpload == ApplyUpload

SpecUpload == InitUpload /\ [][NextUpload]_vars

\* ===================================================================== claims
\* The stage order the specification states, and its part inside the try block.
ClaimedOrder == <<"export", "archive", "checksum", "uploadArchive", "uploadChecksum",
                  "prune", "notify", "cleanup">>

ClaimedPipeline == SubSeq(ClaimedOrder, 1, 6)

PipelineStages == SeqToSet(ClaimedPipeline)

\* The result a run returns when all its stages succeed.
ExpectedResult == [objectKey |-> ObjectKey(runs), objectSize |-> localSize.archive]

\* C1: the stages of a run start in the order export, archive, checksum,
\* upload(archive), upload(checksum), retention-prune, notify, cleanup; a stage
\* starts only when the stage before it has completed (a stage being retried is
\* the last one started), and a run that returns has gone through all of them.
C1_StageOrder ==
  /\ \E n \in 0..Len(ClaimedPipeline) :
     \E tail \in {<<>>, <<"notify">>, <<"notify", "cleanup">>} :
       /\ trace = SubSeq(ClaimedPipeline, 1, n) \o tail
       /\ (tail # <<>> /\ raised = None) => n = Len(ClaimedPipeline)
  /\ \A i \in 2..Len(trace) :
       /\ trace[i] \in PipelineStages =>
            (i - 1 <= Len(completed) /\ completed[i - 1] = trace[i - 1])
       /\ trace[i] = "notify" =>
            (raised = None => (i - 1 <= Len(completed) /\ completed[i - 1] = trace[i - 1]))
       /\ trace[i] = "cleanup" => (completed # <<>> /\ Last(completed) = "notify")
  /\ attempt > 0 => (trace # <<>> /\ Last(trace) = pc)
  /\ (pc = "done" /\ outcome.kind = "return") =>
       (trace = ClaimedOrder /\ completed = SubSeq(ClaimedOrder, 1, 7))

\* C1 witness: a run returned after its prune stage was retried following a
\* partial delete failure.
C1_Witness ==
  /\ pc = "done"
  /\ outcome.kind = "return"
  /\ lastDelete # None
  /\ lastDelete.failed # {}

\* C2: deleteOldBackups is called, and a delete request issued, only when both
\* uploads of the run have passed size verification: the bucket the first
\* request of the run meets holds the run's archive and sidecar with the sizes of
\* the local files; a run aborted by mkdir, export, archive, checksum or an
\* upload never called it.
C2_DeleteOnlyAfterUploads ==
  /\ pruneCalls > 0 =>
       /\ verified = {"archive", "sidecar"}
       /\ {"uploadArchive", "uploadChecksum"} \subseteq SeqToSet(completed)
  /\ lastDelete # None => pruneCalls > 0
  /\ (lastDelete # None /\ pruneCalls = 1) =>
       /\ [key |-> ObjectKey(runs), size |-> localSize.archive]
            \in {[key |-> o.key, size |-> o.size] : o \in lastDelete.before}
       /\ [key |-> SidecarKey(ObjectKey(runs)), size |-> localSize.sidecar]
            \in {[key |-> o.key, size |-> o.size] : o \in lastDelete.before}
  /\ (raised # None /\ raised.stage # "prune") => (pruneCalls = 0 /\ lastDelete = None)

\* C2 witness: a second deleteOldBackups call of a run, after a delete request.
C2_Witness == pruneCalls > 1 /\ lastDelete # None /\ lastDelete.keys # {}

C4_CleanupAlwaysAttempted ==
  /\ outcome # None => pc = "done"
  /\ pc = "done" =>
       /\ Len(trace) >= 2
       /\ trace[Len(trace)] = "cleanup"
       /\ trace[Len(trace) - 1] = "notify"
       /\ Len(notes) >= 1
       /\ outcome = pending
       /\ outcome.kind \in {"return", "throw"}
       /\ outcome.kind = "return" <=> raised = None

\* C4 witness: the removal failed in a run that returned its result.
C4_Witness == pc = "done" /\ rmFailed /\ outcome.kind = "return" /\ tempDir

\* C5: once a stage has failed for good, no further pipeline stage is started,
\* exactly one failure notification is attempted, carrying the message of that
\* error, and runBackup throws that very error (name and message).
C5_FailureAbortsNotifiesRethrows ==
  raised # None =>
    /\ pc \in {"catch", "finally", "done"}
    /\ \A i \in 1..Len(trace) :
         trace[i] \in PipelineStages =>
           \E j \in 1..Len(ClaimedPipeline) :
             /\ ClaimedPipeline[j] = trace[i]
             /\ raised.stage # "mkdir"
             /\ \E m \in j..Len(ClaimedPipeline) : ClaimedPipeline[m] = raised.stage
    /\ (raised.stage \in PipelineStages => raised.stage \in SeqToSet(trace))
    /\ raised.stage \notin SeqToSet(completed)
    /\ pc \in {"finally", "done"} =>
         /\ Len(notes) = 1
         /\ notes[1].status = "failure"
         /\ notes[1].error = raised.error.message
    /\ pc = "done" => outcome = [kind |-> "throw", error |-> raised.error]

\* C5 witness: the archive upload failed in all its attempts, the last one by
\* the size verification, and the run threw that error.
C5_Witness ==
  /\ pc = "done"
  /\ raised # None
  /\ raised.stage = "uploadArchive"
  /\ outcome.kind = "throw"
  /\ outcome.error.message = <<"R2 upload failed", "Upload verification failed: size mismatch">>

\* C6: a run calls the webhook at most once, and never sends both a success
\* and a failure notification.
C6_AtMostOneNotification ==
  /\ Cardinality({i \in 1..Len(notes) : notes[i].fetched}) <= 1
  /\ ~ \E i, j \in 1..Len(notes) : notes[i].status = "success" /\ notes[j].status = "failure"
  /\ Len(notes) <= 1

\* C6 witness: a finished run whose success notification reached the webhook.
C6_Witness ==
  /\ pc = "done"
  /\ Len(notes) = 1
  /\ notes[1].status = "success"
  /\ notes[1].fetched

\* C7: every sendNotification call resolves, whatever the webhook answers, and
\* the outcome of the run is decided by its stages alone: the result when no
\* stage failed, the error of the failed stage otherwise.
C7_NotificationNeverChangesOutcome ==
  /\ \A i \in 1..Len(notes) : notes[i].settles = "resolved"
  /\ pc = "done" =>
       outcome = IF raised = None
                 THEN [kind |-> "return", value |-> ExpectedResult]
                 ELSE [kind |-> "throw", error |-> raised.error]

\* C7 witness: the webhook request of the success notification was rejected
\* and the run returned its result.
C7_Witness ==
  /\ pc = "done"
  /\ outcome.kind = "return"
  /\ Len(notes) = 1
  /\ notes[1].response = "reject"

\* C8 as stated: when a run has ended, every object it wrote to the bucket has
\* the size of the local file it was uploaded from.
C8_NoUnverifiedUploadRetained ==
  pc = "done" =>
    \A o \in store :
      o.key[1] = runs =>
        o.size = IF o.key = ObjectKey(runs) THEN localSize.archive ELSE localSize.sidecar

\* The archives of bucket S that have fewer than k archives newer than them.
MostRecent(S, k) ==
  {a \in Archives(S) : Cardinality({b \in Archives(S) : b.mtime > a.mtime}) < k}

\* C9: no delete request names an archive that is among the retainCount most
\* recent archives of the bucket the request meets.
C9_RetentionWindowNeverDeleted ==
  lastDelete # None =>
    \A a \in MostRecent(lastDelete.before, retainCount) : a.key \notin lastDelete.keys

\* C9 witness: in a second or later run with retainCount >= 1, the prune stage
\* is being retried after a delete request that failed for one key.
C9_Witness ==
  /\ runs >= 2
  /\ retainCount >= 1
  /\ pc = "prune"
  /\ attempt > 0
  /\ lastDelete # None
  /\ lastDelete.failed # {}
  /\ lastDelete.failed # lastDelete.keys

\* C10: for a listing of N archives with distinct LastModified and
\* retainCount k < N, a delete request is issued and its keys are exactly the
\* keys of the N-k oldest archives, each with its sidecar key; when the request
\* succeeds, the archives left are exactly the k newest.
C10_RetentionPartition ==
  LET A      == Archives(storeAtStart)
      N      == Cardinality(A)
      newest == MostRecent(storeAtStart, retainCount)
      oldest == A \ newest
  IN  (pc = "retained" /\ raised = None /\ retainCount < N) =>
        /\ lastDelete # None
        /\ lastDelete.before = storeAtStart
        /\ Cardinality(newest) = retainCount
        /\ Cardinality(oldest) = N - retainCount
        /\ lastDelete.keys = {a.key : a \in oldest} \cup {SidecarKey(a.key) : a \in oldest}
        /\ outcome.kind = "return" => Archives(store) = newest

\* C10 witness: three archives listed in an order that is not their age order,
\* one kept and two deleted.
C10_Witness ==
  /\ pc = "retained"
  /\ retainCount = 1
  /\ Cardinality(Archives(storeAtStart)) = 3
  /\ \E a, b \in Archives(storeAtStart) : KeyLess(a.key, b.key) /\ a.mtime > b.mtime
  /\ outcome.kind = "return"
  /\ Cardinality(lastDelete.keys) = 4

\* C11: when the listing holds no archive or at most retainCount archives
\* (sidecars and other objects not counted), deleteOldBackups returns without
\* issuing a delete request and the bucket is as it was.
C11_NoDeleteWithinRetention ==
  (pc = "retained" /\ raised = None
     /\ Cardinality(Archives(storeAtStart)) <= retainCount) =>
       /\ lastDelete = None
       /\ store = storeAtStart
       /\ outcome = [kind |-> "return", value |-> Ok]

\* C11 witness: exactly retainCount archives, at least one, in a bucket that
\* holds more than retainCount objects because of sidecars and another object.
C11_Witness ==
  /\ pc = "retained"
  /\ raised = None
  /\ retainCount >= 1
  /\ Cardinality(Archives(storeAtStart)) = retainCount
  /\ Cardinality(storeAtStart) > retainCount + 1
  /\ \E o \in storeAtStart : o.key = <<0, "txt">>

\* C12 as stated: when a run with retainCount >= 1 has returned its result, at
\* most retainCount archives are left under the prefix, however many objects
\* the prefix held before the run.
C12_AtMostRetainCountRemain ==
  (pc = "done" /\ outcome.kind = "return" /\ retainCount >= 1) =>
     Cardinality(Archives(store)) <= retainCount

\* C13: when the put succeeded and the read-back answered with a content
\* length that differs from the local file size, uploadToR2 throws the
\* size-mismatch error although the object has been written; uploadToR2 returns
\* normally only when the read-back answered with exactly the local size.
C13_SizeMismatchFails ==
  (pc = "uploaded" /\ ConfigCheck(env) = Ok) =>
     /\ (call.put = "ok" /\ call.head = "ok" /\ call.size # call.localBytes) =>
          /\ outcome = [kind |-> "throw",
                        error |-> WrapError("R2 upload failed",
                                    MkError("Error", "Upload verification failed: size mismatch"))]
          /\ \E o \in store : o.key = call.key /\ o.size = call.size
     /\ outcome.kind = "return" =>
          /\ call.put = "ok"
          /\ call.head = "ok"
          /\ call.size = call.localBytes
          /\ HeadContentLength(store, call.key) = call.localBytes

\* C13 witness: the put succeeded, the read-back reported one byte less than
\* the local file, and the call threw.
C13_Witness ==
  /\ pc = "uploaded"
  /\ call.put = "ok"
  /\ call.head = "ok"
  /\ call.size = call.localBytes - 1
  /\ call.localBytes > 1
  /\ outcome.kind = "throw"

\* C14: when R2_BUCKET or one of the three credentials is not set, uploadToR2
\* throws a configuration error without having sent a request to the storage
\* client, and the bucket is untouched.
C14_ConfigCheckedBeforeRequests ==
  (pc = "uploaded" /\ env # R2Config) =>
     /\ outcome.kind = "throw"
     /\ outcome.error \in {MkError("Error", "R2 credentials not configured"),
                           MkError("Error", "R2_BUCKET not configured")}
     /\ call.requests = 0
     /\ call.put = "none"
     /\ netCalls = {}
     /\ store = storeAtStart

\* C14 witness: only one credential is missing and the call has thrown.
C14_Witness ==
  /\ pc = "uploaded"
  /\ env = R2Config \ {"R2_SECRET_ACCESS_KEY"}
  /\ outcome.kind = "throw"

\* C15 as stated: in a run where R2_BUCKET or a storage credential is not set,
\* no request is sent to the content source or to the storage.
C15_ConfigDetectedBeforeNetwork == env # R2Config => netCalls = {}

\* C16 as stated: in a run where R2_BUCKET or a storage credential is not set,
\* uploadToR2 is invoked once: the retry loop around it never goes round (waits
\* a delay and enters another attempt) after the configuration error.
C16_ConfigErrorNotRetried ==
  (env # R2Config /\ pc = "uploadArchive") =>
     ~(attempt > 0 /\ lastError = ConfigCheck(env))

\* C17: whenever the source answered with success and the record file written
\* from its body has zero bytes, exportSanityDataset rejects with the empty-file
\* error, and exportAssets has not been called nor any asset download started.
C17_EmptyExportFails ==
  /\ (pc \in {"download", "exported"} /\ call.response.ok /\ call.response.body
        /\ call.fileBytes = 0) =>
       /\ pc = "exported"
       /\ outcome = [kind |-> "throw", error |-> ExportError("Export file is empty")]
       /\ ~call.assetsCalled
       /\ call.results = <<>>
       /\ "cdn" \notin netCalls
  /\ (pc = "exported" /\ outcome.kind = "return") => call.fileBytes > 0

\* C17 witness: the source answered ok with an empty body, assets were asked
\* for, and the call has rejected.
C17_Witness ==
  /\ pc = "exported"
  /\ call.includeAssets
  /\ call.response.ok
  /\ call.response.body
  /\ call.fileBytes = 0
  /\ outcome.kind = "throw"

\* C18 as stated: an export that reported success but wrote a zero-byte record
\* file is not followed by another export attempt of the same run.
C18_EmptyExportNotRetried ==
  pc = "export" => ~(attempt > 0 /\ lastError = ExportError("Export file is empty"))

\* C19: when the response to the delete request of the latest deleteOldBackups
\* call reported an error for at least one key, that call threw an error whose
\* message names the number of failed keys; the run is then either retrying the
\* prune stage or has failed with that very error, and it never sends a success
\* notification or returns a result.
C19_PartialDeleteIsFailure ==
  (lastDelete # None /\ lastDelete.call = pruneCalls /\ lastDelete.failed # {}) =>
     LET n == Cardinality(lastDelete.failed)
         e == [name |-> "Error",
               message |-> <<"Retention management failed",
                             "Failed to delete some backups", ToString(n), "errors">>]
     IN  /\ lastError = e
         /\ pc \in {"prune", "catch", "finally", "done"}
         /\ pc = "prune" => attempt > 0
         /\ pc # "prune" => (raised # None /\ raised.stage = "prune" /\ raised.error = e)
         /\ \A i \in 1..Len(notes) : notes[i].status = "failure"
         /\ pc = "done" => outcome = [kind |-> "throw", error |-> e]

\* C19 witness: the fourth deleteOldBackups call of a run got an error for one
\* key out of several, and the run has thrown.
C19_Witness ==
  /\ pc = "done"
  /\ pruneCalls = StageMaxRetries + 1
  /\ lastDelete # None
  /\ lastDelete.call = pruneCalls
  /\ Cardinality(lastDelete.failed) = 1
  /\ Cardinality(lastDelete.keys) > 1
  /\ outcome.kind = "throw"

\* base to the power of a natural exponent.
RECURSIVE Pow(_, _)
Pow(base, e) == IF e = 0 THEN 1 ELSE base * Pow(base, e - 1)

\* The delay the specification states for the i-th retry.
ClaimedDelay(i) ==
  LET d == opts.initialDelayMs * Pow(opts.backoffMultiplier.num, i - 1)
  IN  IF d < opts.maxDelayMs THEN d ELSE opts.maxDelayMs

\* C20: in withExponentialBackoff with an integer backoffMultiplier and an
\* onRetry hook, the i-th hook call receives attempt number i and the delay
\* min(initialDelayMs * backoffMultiplier^(i-1), maxDelayMs); when all
\* maxRetries + 1 attempts have failed the hook has been called exactly
\* maxRetries times; (10, x2, 3 retries) gives the delays 10, 20, 40.
C20_RetryDelays ==
  (pc \in {"attempt", "settled"} /\ opts.backoffMultiplier.den = 1
     /\ opts.onRetry # "none") =>
       /\ \A i \in 1..Len(retryLog) :
            /\ retryLog[i].attempt = i
            /\ retryLog[i].nextDelayMs = ClaimedDelay(i)
       /\ (pc = "settled" /\ outcome.kind = "throw" /\ outcome.error \in FnErrors
             /\ attempt = opts.maxRetries) =>
            /\ Len(retryLog) = opts.maxRetries
            /\ (opts.initialDelayMs = 10 /\ opts.backoffMultiplier.num = 2
                  /\ opts.maxRetries = 3) =>
                 [i \in 1..3 |-> retryLog[i].nextDelayMs] = <<10, 20, 40>>

\* C20 witness: (100, x2, maxDelayMs 300, 5 retries), every attempt failed, and
\* the hook received the delays 100, 200, 300, 300, 300.
C20_Witness ==
  /\ pc = "settled"
  /\ outcome.kind = "throw"
  /\ opts.maxRetries = 5
  /\ opts.initialDelayMs = 100
  /\ opts.maxDelayMs = 300
  /\ opts.backoffMultiplier = [num |-> 2, den |-> 1]
  /\ attempt = 5
  /\ [i \in 1..Len(retryLog) |-> retryLog[i].nextDelayMs] = <<100, 200, 300, 300, 300>>

\* The invocations of fn that rejected, and whether position i of the record of
\* invocations is a rejection.
Rejected(i) == call.settled[i] \in FnErrors

\* Either retry function has been called and the loop runs or has ended.
InRetryCall == pc \in {"attempt", "settled"} /\ call # None

\* C21: with a shouldRetry that always allows the retry, withExponentialBackoff
\* and retryWithJitter invoke the operation at most maxRetries + 1 times and
\* have settled once the last allowed invocation has; only the last invocation
\* made can have succeeded, the function then has returned that invocation's
\* value; and when every invocation failed (the hook, if any, returning) the
\* function has settled after exactly maxRetries + 1 invocations.
C21_BoundedInvocations ==
  (InRetryCall /\ opts.shouldRetry) =>
    LET n == Len(call.settled)
    IN  /\ n <= opts.maxRetries + 1
        /\ n = opts.maxRetries + 1 => pc = "settled"
        /\ pc = "attempt" => n = attempt
        /\ \A i \in 1..n : ~Rejected(i) =>
             /\ i = n
             /\ pc = "settled"
             /\ outcome = [kind |-> "return", value |-> call.settled[i]]
        /\ (pc = "settled" /\ opts.onRetry # "throws" /\ \A i \in 1..n : Rejected(i)) =>
             n = opts.maxRetries + 1

\* C21 witness: retryWithJitter with maxRetries 2 has returned the value of the
\* third invocation, the first two having failed.
C21_Witness ==
  /\ InRetryCall
  /\ call.fn = "retryWithJitter"
  /\ opts.shouldRetry
  /\ opts.maxRetries = 2
  /\ pc = "settled"
  /\ Len(call.settled) = 3
  /\ Rejected(1) /\ Rejected(2) /\ ~Rejected(3)
  /\ outcome.kind = "return"

\* All maxRetries + 1 invocations were made and the last one failed too.
Exhausted ==
  /\ InRetryCall
  /\ pc = "settled"
  /\ Len(call.settled) = opts.maxRetries + 1
  /\ Rejected(Len(call.settled))

\* C22: when all maxRetries + 1 attempts have failed, withExponentialBackoff
\* has thrown the error of the last attempt itself, and retryWithJitter has
\* thrown a RetryError whose attempts is maxRetries + 1 and whose lastError is
\* the error of the last attempt.
C22_ExhaustionError ==
  Exhausted =>
    /\ outcome.kind = "throw"
    /\ call.fn = "withExponentialBackoff" => outcome.error = Last(call.settled)
    /\ call.fn = "retryWithJitter" =>
         /\ outcome.error.name = "RetryError"
         /\ outcome.error.attempts = opts.maxRetries + 1
         /\ outcome.error.lastError = Last(call.settled)

\* C22 witness: retryWithJitter with maxRetries 3 has failed four times, the
\* last time with another error than the first, and has thrown.
C22_Witness ==
  /\ Exhausted
  /\ call.fn = "retryWithJitter"
  /\ opts.maxRetries = 3
  /\ call.settled[1] # call.settled[4]
  /\ outcome.kind = "throw"
  /\ outcome.error.attempts = 4

\* shouldRetry rejects, and the first invocation has failed and been handled.
RejectedByPredicate ==
  /\ InRetryCall
  /\ ~opts.shouldRetry
  /\ pc = "settled"
  /\ Len(call.settled) >= 1
  /\ Rejected(1)

\* C23 as stated: in both variants and for every maxRetries >= 0, when
\* shouldRetry rejects the error of the first attempt the operation has been
\* invoked exactly once, no delay was waited, and the caller has received that
\* error itself.
C23_PredicateRejectionUnwrapped ==
  RejectedByPredicate =>
    /\ Len(call.settled) = 1
    /\ call.waits = <<>>
    /\ outcome = [kind |-> "throw", error |-> call.settled[1]]

\* C23 amended: as above, except that retryWithJitter with maxRetries = 0
\* delivers a RetryError with attempts 1 whose lastError is that error, the
\* test for the last attempt preceding the predicate; in every case shouldRetry
\* rejecting means one invocation, no hook call and no delay.
C23_PredicateRejection ==
  /\ (InRetryCall /\ ~opts.shouldRetry /\ pc = "attempt") => call.settled = <<>>
  /\ RejectedByPredicate =>
       /\ Len(call.settled) = 1
       /\ call.waits = <<>>
       /\ retryLog = <<>>
       /\ outcome.kind = "throw"
       /\ IF call.fn = "retryWithJitter" /\ opts.maxRetries = 0
          THEN /\ outcome.error.name = "RetryError"
               /\ outcome.error.attempts = 1
               /\ outcome.error.lastError = call.settled[1]
          ELSE outcome.error = call.settled[1]

\* C23 witness: retryWithJitter with maxRetries 2, a hook and a predicate that
\* rejects has thrown the error of its only invocation.
C23_Witness ==
  /\ RejectedByPredicate
  /\ call.fn = "retryWithJitter"
  /\ opts.maxRetries = 2
  /\ opts.onRetry = "returns"
  /\ opts.initialDelayMs = 100
  /\ outcome = [kind |-> "throw", error |-> call.settled[1]]

\* C24: a failure of the onRetry hook does not disrupt the retry loop: the
\* caller never receives the hook's error, and a function that has thrown has
\* made all maxRetries + 1 attempts or was stopped by shouldRetry.
C24_HookFailureContained ==
  (InRetryCall /\ pc = "settled" /\ outcome.kind = "throw") =>
    /\ outcome.error # HookError
    /\ opts.shouldRetry => Len(call.settled) = opts.maxRetries + 1

\* retryWithJitter has been called; its retries so far are 1..Len(call.waits),
\* or one more when the hook of the last one threw.
InJitterCall == InRetryCall /\ call.fn = "retryWithJitter"

\* The un-jittered delay of the specification for the i-th retry, as the
\* fraction num / den: initialDelayMs * backoffMultiplier^(i-1) capped at
\* maxDelayMs.
ClaimedBase(i) ==
  LET den == Pow(opts.backoffMultiplier.den, i - 1)
      num == opts.initialDelayMs * Pow(opts.backoffMultiplier.num, i - 1)
  IN  [num |-> IF num < opts.maxDelayMs * den THEN num ELSE opts.maxDelayMs * den,
       den |-> den]

\* delayMs of the function at its i-th retry: initialDelayMs, then rounded after
\* every multiplication.
RECURSIVE DelayAtRetry(_)
DelayAtRetry(i) ==
  IF i = 1 THEN opts.initialDelayMs
  ELSE MathRound(DelayAtRetry(i - 1) * opts.backoffMultiplier.num, opts.backoffMultiplier.den)

RejectedDownloads ==
  Cardinality({i \in 1..Len(call.results) : call.results[i] = "rejected"})

\* C26: asset download is soft-fail: once the document export succeeded (the
\* source answered with success and the record file is not empty),
\* exportSanityDataset resolves whatever subset of the asset downloads failed,
\* all of them included; a failed download neither ends the call nor keeps the
\* remaining downloads from being made.
C26_AssetFailuresNotFatal ==
  /\ (pc = "download") =>
       /\ outcome.kind = "none"
       /\ call.fileBytes > 0
  /\ (pc = "exported" /\ ResponseCheck(call.response) = Ok /\ call.fileBytes > 0) =>
       /\ outcome = [kind |-> "return", value |-> Ok]
       /\ call.includeAssets => Len(call.results) = call.urls
       /\ call.batch = <<>>

\* C26 witness: three assets were found, every download was rejected, and
\* exportSanityDataset has resolved.
C26_Witness ==
  /\ pc = "exported"
  /\ call.includeAssets
  /\ call.urls = 3
  /\ RejectedDownloads = 3
  /\ outcome = [kind |-> "return", value |-> Ok]

\* Downloads in flight: started and not settled.
InFlight ==
  Cardinality({i \in 1..Len(call.batch) : call.batch[i] = "pending"})
  + Cardinality({i \in 1..Len(call.results) : call.results[i] = "pending"})

\* C27: asset downloads run in batches of bounded concurrency: for
\* assetConcurrency N >= 1 never more than N downloads are in flight, and while
\* a download of a later batch is started every download of the earlier batches
\* has settled; the batches are consecutive groups of N URLs, the last one
\* possibly shorter.
C27_BoundedConcurrencyBatches ==
  (pc \in {"download", "exported"} /\ call.assetsCalled) =>
    /\ call.assetConcurrency >= 1
    /\ InFlight <= call.assetConcurrency
    /\ Len(call.batch) <= call.assetConcurrency
    /\ Len(call.results) + Len(call.batch) <= call.urls
    /\ \A i \in 1..Len(call.results) : call.results[i] \in {"fulfilled", "rejected"}
    /\ \/ Len(call.results) % call.assetConcurrency = 0
       \/ Len(call.results) = call.urls

\* C27 witness: three URLs with assetConcurrency 2; the first batch of two has
\* settled, one of them rejected, and the third download is in flight.
C27_Witness ==
  /\ pc = "download"
  /\ call.assetConcurrency = 2
  /\ call.urls = 3
  /\ Len(call.results) = 2
  /\ call.results[1] = "rejected"
  /\ call.batch = <<"pending">>

\* C28 as stated: an optional setting that is not set takes its documented
\* default: drafts and assets are included, retainCount is 7 and the asset
\* concurrency is 6.
C28_UnsetTakesDocumentedDefault ==
  pc = "configured" =>
    /\ ~env.INCLUDE_DRAFTS.set => call.config.includeDrafts
    /\ ~env.INCLUDE_ASSETS.set => call.config.includeAssets
    /\ ~env.RETAIN_COUNT.set => call.config.retainCount = Num(7)
    /\ ~env.ASSET_CONCURRENCY.set => call.config.assetConcurrency = Num(6)

\* s begins with p.
StartsWith(s, p) == Len(p) <= Len(s) /\ SubSeq(s, 1, Len(p)) = p

\* The directory the specification states for the backups of a dataset:
\* {storagePrefix}/{projectId}/{dataset}/, the prefix being the one configured
\* or 'sanity'.
ClaimedDirectory ==
  (IF env.R2_PREFIX.set /\ env.R2_PREFIX.text # <<>> THEN env.R2_PREFIX.text ELSE Sanity)
  \o Slash \o env.SANITY_PROJECT_ID.text \o Slash \o env.SANITY_DATASET.text \o Slash

\* C29 as stated: the archive is uploaded under a key that begins with
\* {storagePrefix}/{projectId}/{dataset}/, the sidecar under exactly the archive
\* key followed by '.sha256', and retention prunes under that same prefix.
C29_KeysUnderStoragePrefix ==
  pc = "configured" =>
    /\ StartsWith(call.objectKey, ClaimedDirectory)
    /\ call.checksumKey = call.objectKey \o Sha256Ext
    /\ call.prunePrefix = ClaimedDirectory

\* C30 as stated: uploadToR2 chooses the transfer by the size of the file: a
\* multi-part transfer for every file of at least 100 MiB, a single-shot
\* transfer for every smaller file, and in both cases the size read-back
\* follows the transfer.
C30_TransferBySize ==
  (pc = "uploaded" /\ call.requests >= 1) =>
    /\ call.localBytes >= MultipartThreshold => call.transfer = "multipart"
    /\ call.localBytes < MultipartThreshold => call.transfer = "single"
    /\ call.put = "ok" => call.head # "none"

\* C31 as stated: an upload of the archive is attempted only for an archive
\* file of more than zero bytes; a run whose archive has zero bytes has failed
\* before its upload stage.
C31_NoUploadOfEmptyArchive ==
  \A i \in 1..Len(trace) : trace[i] = "uploadArchive" => localSize.archive > 0

\* A file name of the claim: not empty, no white space at either end (spaces
\* inside are allowed).
NameWithInternalSpaces(f) ==
  f # <<>> /\ f[1] \notin Whitespace /\ f[Len(f)] \notin Whitespace

\* The line, surrounding white space set aside, has the shape
\* <hex><white space><rest>.
HasChecksumShape(line) ==
  LET t == Trim(line)
  IN  \E i \in 1..Len(t), j \in 1..Len(t) :
        /\ i < j /\ j < Len(t)
        /\ \A k \in 1..i : IsHex(t[k])
        /\ \A k \in (i + 1)..j : t[k] \in Whitespace

\* C32: the text '<hex>  <filename>' written for a lowercase hex digest and a
\* file name with internal spaces, parsed by parseChecksumFile, gives a map in
\* which exactly that file name is mapped to that digest; a further line that
\* has not the shape <hex><white space><rest> is skipped without an error.
C32_SidecarRoundTrip ==
  (pc = "parsed" /\ NameWithInternalSpaces(env.filename)
     /\ ~HasChecksumShape(env.other)) =>
       /\ call.checksums = {[filename |-> env.filename, checksum |-> env.checksum]}
       /\ outcome = [kind |-> "return", value |-> Ok]

\* C32 witness: digest a1 and the file name 'a x' (a hex character, a space,
\* another character), followed by the line '#x', have been written and parsed.
C32_Witness ==
  /\ pc = "parsed"
  /\ env.checksum = <<"a", "1">>
  /\ env.filename = <<"a", " ", "x">>
  /\ env.other = <<"#", "x">>
  /\ Cardinality(call.checksums) = 1


\* C33: runs on the same dataset and prefix are not coordinated.  Under two
\* interleaved runs an archive that its run uploaded and verified is missing
\* from the bucket only because a retention delete removed it after the other
\* run had begun to upload; with retainCount = 1 the delete of the other run
\* removes it before the uploading run has returned.
C33_UncoordinatedRetention ==
  pc = "concurrent" =>
    \A r \in ConcurrentRuns :
      ("archive" \in call[r].verified /\ ObjectKey(r) \notin Keys(store))
        => /\ \E q \in ConcurrentRuns : ObjectKey(r) \in call[q].deleted
           /\ \E q \in ConcurrentRuns \ {r} : call[q].pc # "export"

C33_Witness ==
  /\ pc = "concurrent"
  /\ retainCount = 1
  /\ \E r \in ConcurrentRuns : \E q \in ConcurrentRuns \ {r} :
       /\ call[r].pc \in {"uploadChecksum", "prune", "notify"}
       /\ "archive" \in call[r].verified
       /\ ObjectKey(r) \notin Keys(store)
       /\ ObjectKey(r) \in call[q].deleted
       /\ "archive" \in call[q].verified

\* C34: the status of the notification of a run agrees with its outcome.  From
\* the success notification on the run has a return pending and no error, from
\* the failure notification on a throw; and a finished run that sent 'success'
\* returned its result, one that sent 'failure' threw.
C34_NotificationAgreesWithOutcome ==
  \A i \in 1..Len(notes) :
    /\ notes[i].status = "success" =>
         /\ raised = None
         /\ pc \in {"finally", "done"} /\ pending.kind = "return"
         /\ pc = "done" => outcome.kind = "return"
    /\ notes[i].status = "failure" =>
         /\ pc \in {"finally", "done"} /\ pending.kind = "throw"
         /\ pc = "done" => outcome.kind = "throw"

\* C34 witness: a finished run that sent a failure notification to the webhook
\* and threw, the removal of its temporary directory having failed as well.
C34_Witness ==
  /\ pc = "done"
  /\ Len(notes) = 1
  /\ notes[1].status = "failure" /\ notes[1].fetched
  /\ outcome.kind = "throw"
  /\ rmFailed

\* C35: in serialized runs with retainCount >= 1, from the end of the prune
\* stage of a run that succeeds until it has returned its result, the archive
\* under the returned objectKey and its '.sha256' sidecar are in the bucket, and
\* no delete request of the run named either key.
C35_OwnBackupSurvivesPrune ==
  (retainCount >= 1 /\ pc \in {"notify", "finally", "done"} /\ raised = None
     /\ (pc = "done" => outcome.kind = "return")) =>
     /\ {ObjectKey(runs), SidecarKey(ObjectKey(runs))} \subseteq Keys(store)
     /\ pc = "done" => outcome.value.objectKey = ObjectKey(runs)
     /\ lastDelete # None =>
          lastDelete.keys \cap {ObjectKey(runs), SidecarKey(ObjectKey(runs))} = {}

\* C35 witness: a run returned its result after its delete request removed the
\* backup of the run before it.
C35_Witness ==
  /\ pc = "done"
  /\ outcome.kind = "return"
  /\ retainCount >= 1
  /\ runs >= 2
  /\ lastDelete # None
  /\ ObjectKey(runs - 1) \in lastDelete.keys
  /\ ObjectKey(runs - 1) \notin Keys(store)

\* The archives of bucket S without a sidecar, and the sidecars without archive.
Unpaired(S) ==
  {o.key : o \in {a \in S : EndsWithTarGz(a.key) /\ SidecarKey(a.key) \notin Keys(S)}}
  \cup {SidecarKey(k) : k \in {j \in {ObjectKey(i) : i \in (-MaxInit)..MaxRuns} :
                                 SidecarKey(j) \in Keys(S) /\ j \notin Keys(S)}}

\* C36 as stated: between serialized runs an archive is in the bucket if and
\* only if its '.sha256' sidecar is.
C36_ArchiveAndSidecarPaired ==
  pc \in {"idle", "done"} => Unpaired(store) = {}

\* C37 as stated: no delete request of deleteOldBackups carries more than
\* MaxKeys keys, for every listing page of up to MaxKeys objects and every
\* retainCount >= 0.
C37_DeleteRequestWithinLimit ==
  (pc = "pruned" /\ call.sent) => call.keys <= MaxKeys

\* Every distinct URL was attempted exactly once and the settled results are as
\* many as the URLs.
AttemptedOnce ==
  /\ \A u \in 1..call.urls : call.attempts[u] = 1
  /\ Len(call.results) = call.urls

\* C38 as stated: for every integer assetConcurrency parsed from
\* ASSET_CONCURRENCY, 0 included, exportAssets terminates having attempted
\* each distinct asset URL exactly once.
C38_ExportAssetsTerminates ==
  (pc = "assets" /\ ~call.assetConcurrency.nan) ~> (pc = "exported" /\ AttemptedOnce)

\* C39 as stated: the stored last-check time is later than a commit only when
\* that commit was listed by an iteration over its repository that ended
\* without error; a commit of a repository whose processing failed is still
\* in the window of the next run.
C39_LastCheckOnlyPastProcessedCommits ==
  pc \in {"repos", "done"} =>
    \A r \in SeqToSet(MonitoredRepos) : \A t \in env.commits[r] :
      (env.lastCheck.exists /\ t < env.lastCheck.time) => <<r, t>> \in env.examined

====
